---- MODULE Spec2Model ----
(***************************************************************************)
(* Model of stem's control session engine.                                 *)
(*                                                                         *)
(*   Spec         the transport: stem.socket.ControlSocket wrapped by      *)
(*                stem.control.BaseController, with its reader thread,     *)
(*                its event thread, application threads and the peer.      *)
(*   SpecSession  the session: stem.control.Controller's request cache.    *)
(*   SpecConf     the session's configuration calls.                       *)
(*   SpecOptions  set_options with every reply of tor.                     *)
(*   SpecWire     the wire codec: stem.socket.recv_message and             *)
(*                send_formatting.                                         *)
(*   SpecSubclass the transport under a subclass whose event handler may   *)
(*                call close() and which notifies State.RESET.             *)
(*   FairWorkers  the threads of such a subclass, with scheduling.         *)
(*   FairBase     the threads of a BaseController, with scheduling.        *)
(*   FairMsg      msg() calls with a scheduled reader and peer.            *)
(*   SpecCache    the calls that write the request cache.                  *)
(*   SpecReconnect get_info and get_conf_map beside another thread's       *)
(*                connect().                                               *)
(*   SpecLookups  get_info called by two threads at once.                  *)
(*   SpecTor      the configuration calls against a tor that keeps its     *)
(*                configuration.                                           *)
(*   SpecFeatures enable_feature and is_feature_enabled.                   *)
(***************************************************************************)
EXTENDS Integers, Sequences, FiniteSets, TLC

(***************************************************************************)
(* Bounds of the model.                                                    *)
(***************************************************************************)
MaxOps == 3        \* msg() calls, connect() calls, notifications of a
                   \* subclass and messages the peer sends unasked, all
                   \* together, in one behaviour
MaxRequests == 6   \* calls of the Controller made in one behaviour
MaxConfCalls == 2  \* the same where the calls are configuration calls
MaxFeatureCalls == 3 \* the same where the calls are about features
MaxLines == 5      \* complete lines the peer sends for recv_message to read
MaxText == 4       \* characters of a message given to send_formatting
MaxQueue == 1      \* leftover items in the reply queue beyond which the reader,
                   \* finding the socket shut but is_alive() still true because
                   \* another thread is in the middle of close(), waits for that
                   \* thread instead of going round its loop once more

\* Application threads. The msg lock lets one msg() call run at a time and the
\* send lock one connect() or close() at a time, and a call waiting for its
\* lock has done nothing yet: calls made by any number of threads are the
\* calls of one thread that makes the msg() calls and one that makes the
\* connect() and close() calls.
CALLER == "caller"
CONTROL == "control"
Apps == {CALLER, CONTROL}
READER == "reader"            \* BaseController._reader_thread
EVENT == "event"              \* BaseController._event_thread
Threads == Apps \cup {READER, EVENT}
NoOne == "none"

\* control.py 108: failures before the geoip database is taken for unavailable
GEOIP_FAILURE_THRESHOLD == 5

\* stem.control.State (the two states BaseController notifies)
INIT == "INIT"
RESET == "RESET"
CLOSED == "CLOSED"

\* BaseController._status_listeners: tuples (callback, spawn_thread)
status_listeners == << [callback |-> "sync", spawn |-> FALSE],
                       [callback |-> "async", spawn |-> TRUE] >>
Listeners == {status_listeners[i].callback : i \in 1..Len(status_listeners)}

\* Status codes of the lines of a decoded message, first line to last: of an
\* answer to a command, and of a message sent unasked. recv_message decodes
\* lines of any codes up to the first line with a space divider; the first
\* lines here differ from the last so that it shows which one is looked at.
ReplyShapes == { <<"650", "250">> }
EventShapes == { <<"250", "650">> }

VARIABLES
  is_alive,       \* ControlSocket._is_alive
  sock_open,      \* ControlSocket._socket / _socket_file are set and not shut down
  peer_open,      \* the peer has not closed its end of the current socket
  pending,        \* ids of the commands written to the socket and not answered yet
  send_lock,      \* ControlSocket._send_lock (RLock): [owner, depth]
  recv_lock,      \* ControlSocket._recv_lock: its owner
  msg_lock,       \* BaseController._msg_lock: its owner
  reply_queue,    \* BaseController._reply_queue
  event_queue,    \* BaseController._event_queue
  event_notice,   \* BaseController._event_notice (threading.Event)
  pc,             \* each thread's position
  ret,            \* where a thread continues when its close() returns
  is_change,      \* the local is_change of the close() holding the send lock
  wrote,          \* whether the msg() call in progress wrote its command
  after_close,    \* whether it was made on a closed socket, no connect() since
  event_message,  \* _event_loop's local event_message
  notifying,      \* state and expect_alive of the subclass's notification
  ncalls,         \* msg() calls made so far; the call in progress has this id
  nunasked,       \* messages the peer sent unasked so far
  nevents,        \* messages ending in a 650 line the reader decoded so far
  nconnects,      \* connect() calls made so far
  nnotifies,      \* _notify_status_listeners calls made by a subclass so far
  handled,        \* the messages handed to _handle_event, in order
  notes,          \* per listener, the states it was notified with, in order
  transitions,    \* the changes of is_alive so far, as the state each one means
  is_caching_enabled,   \* Controller._is_caching_enabled
  request_cache,        \* Controller._request_cache
  geoip_failure_count,  \* Controller._geoip_failure_count
  nrequests,      \* calls of the Controller made so far
  wire,           \* commands the Controller's calls have written to the socket
  fetched,        \* per lowercased key, what the last get_info of that one key
                  \* returned since the cache was last emptied
  geoip_lookups,  \* ip-to-country lookups of this connection: how many failed
                  \* since the cache was last emptied, and whether one succeeded
  command,        \* the last GETCONF, SETCONF or RESETCONF command written
  answer,         \* the entries of tor's answer to the last configuration call
  tor_conf,       \* tor's configuration: the values it holds for each option
  enabled_features, \* Controller.enabled_features, a list of feature names
  last,           \* the Controller's last call: what it was and how it ended
  control_file,   \* recv_message's control_file: what is left to read
  formatted,      \* the message that was formatted into it, if one was
  parsed_content, \* recv_message's parsed_content
  data_entry,     \* the entry whose data block recv_message is reading
  received        \* what recv_message returned or raised

sockv == << is_alive, sock_open, peer_open, pending >>
lockv == << send_lock, recv_lock, msg_lock >>
queuev == << reply_queue, event_queue, event_notice >>
localv == << pc, ret, is_change, wrote, after_close, event_message, notifying >>
countv == << ncalls, nunasked, nevents, nconnects, nnotifies >>
histv == << handled, notes, transitions >>
sessv == << is_caching_enabled, request_cache, geoip_failure_count, nrequests, wire, fetched, geoip_lookups, command, answer, tor_conf, enabled_features, last >>
wirev == << control_file, formatted, parsed_content, data_entry, received >>

vars == << sockv, lockv, queuev, localv, countv, histv, sessv, wirev >>

\* What counts against MaxOps.
Ops == ncalls + nunasked + nconnects + nnotifies

\* What travels through the queues and comes out of msg(). "for" is the id of
\* the command the peer was answering (0: none), "seq" the number of the
\* message among those the peer sent unasked (0: an answer).
Nothing == [kind |-> "none", codes |-> << >>, for |-> 0, seq |-> 0]
SocketClosed == [kind |-> "SocketClosed", codes |-> << >>, for |-> 0, seq |-> 0]
SocketError == [kind |-> "SocketError", codes |-> << >>, for |-> 0, seq |-> 0]
ProtocolError(f, n) == [kind |-> "ProtocolError", codes |-> << >>, for |-> f, seq |-> n]
ControlMessage(c, f, n) == [kind |-> "ControlMessage", codes |-> c, for |-> f, seq |-> n]

\* isinstance(x, stem.socket.ControllerError)
IsControllerError(x) ==
  x.kind \in {"SocketClosed", "SocketError", "ProtocolError", "OperationFailed",
             "UnsatisfiableRequest", "InvalidRequest", "InvalidArguments"}

(***************************************************************************)
(* threading.RLock                                                         *)
(***************************************************************************)
Free == [owner |-> NoOne, depth |-> 0]
CanAcquire(l, t) == l.owner \in {NoOne, t}
Acquire(l, t) == [owner |-> t, depth |-> l.depth + 1]
Release(l) == IF l.depth = 1 THEN Free ELSE [l EXCEPT !.depth = l.depth - 1]

\* A notification that is made whatever is_alive() says.
NotifiedAlways(state, expect_alive, alive) ==
  [l \in Listeners |-> Append(notes[l], state)]

\* _notify_status_listeners(state, expect_alive), control.py 354-393, called
\* with an expect_alive that is not None. In connect() and close() the caller
\* holds the send lock (RLock, so the acquisition inside succeeds).
Notified(state, expect_alive, alive) ==
  IF expect_alive # alive THEN notes
  ELSE [l \in Listeners |-> Append(notes[l], state)]

\* No notification of a subclass is under way.
NoNotice == [state |-> "none", expect_alive |-> FALSE]

(***************************************************************************)
(* Initial state: a Controller built on a connected ControlSocket          *)
(* (Controller.from_port): the socket is alive and BaseController.__init__ *)
(* has launched both threads.                                              *)
(***************************************************************************)
InitTransport ==
  /\ is_alive = TRUE
  /\ sock_open = TRUE
  /\ peer_open = TRUE
  /\ pending = << >>
  /\ send_lock = Free
  /\ recv_lock = NoOne
  /\ msg_lock = NoOne
  /\ reply_queue = << >>
  /\ event_queue = << >>
  /\ event_notice = FALSE
  /\ pc = [t \in Threads |->
             IF t = READER THEN "r_loop" ELSE IF t = EVENT THEN "e_get" ELSE "idle"]
  /\ ret = [t \in Threads |-> "idle"]
  /\ is_change = FALSE
  /\ wrote = FALSE
  /\ after_close = FALSE
  /\ event_message = Nothing
  /\ ncalls = 0
  /\ nunasked = 0
  /\ nevents = 0
  /\ nconnects = 0
  /\ nnotifies = 0
  /\ notifying = NoNotice
  /\ handled = << >>
  /\ notes = [l \in Listeners |-> << >>]
  /\ transitions = << >>

(***************************************************************************)
(* ControlSocket.close, socket.py 187-222, with BaseController._close,     *)
(* control.py 338-352, which it calls. close() runs on application         *)
(* threads and, from recv(), on the reader thread; ret[t] is where the     *)
(* caller continues.                                                       *)
(***************************************************************************)
\* A close() that takes every call for a change of state.
IsChangeAlways(alive) == TRUE

\* Line 196: is_change = self.is_alive().
IsChange(alive) == alive

\* Lines 192-215: the send lock is taken, is_change is read and the socket
\* is shut down and closed.
CloseLock(t) ==
  /\ pc[t] = "c_lock"
  /\ CanAcquire(send_lock, t)
  /\ send_lock' = Acquire(send_lock, t)
  /\ is_change' = IsChange(is_alive)
  /\ sock_open' = FALSE
  /\ pc' = [pc EXCEPT ![t] = "c_dead"]
  /\ UNCHANGED << is_alive, peer_open, pending, recv_lock, msg_lock, queuev,
                  ret, wrote, after_close, event_message, notifying, countv,
                  histv, sessv, wirev >>

\* The send lock when close() has returned to its caller; recv() then releases
\* what it acquired itself (socket.py 133).
Returned(l, t) == IF t = READER THEN Release(Release(l)) ELSE Release(l)

\* A close() that calls _close() whether or not is_alive() changed.
CallsCloseAlways(change) == TRUE

\* Line 221: "if is_change: self._close()".
CallsClose(change) == change

\* Lines 217-221: the socket is forgotten and _is_alive set to false; on a
\* change _close() is called, which first wakes the event thread (control.py
\* 343). Otherwise close() returns, releasing the send lock.
CloseDead(t) ==
  /\ pc[t] = "c_dead"
  /\ is_alive' = FALSE
  /\ transitions' = IF is_alive THEN Append(transitions, CLOSED) ELSE transitions
  /\ is_change' = FALSE
  /\ IF CallsClose(is_change)
       THEN /\ event_notice' = TRUE
            /\ pc' = [pc EXCEPT ![t] = "c_join"]
            /\ UNCHANGED << send_lock, ret >>
       ELSE /\ event_notice' = event_notice
            /\ send_lock' = Returned(send_lock, t)
            /\ pc' = [pc EXCEPT ![t] = ret[t]]
            /\ ret' = [ret EXCEPT ![t] = "idle"]
  /\ UNCHANGED << sock_open, peer_open, pending, recv_lock, msg_lock,
                  reply_queue, event_queue, wrote, after_close,
                  event_message, notifying, countv, handled, notes, sessv,
                  wirev >>

\* A join that does not look at which thread is calling.
MayPassJoinOfAny(t, other) == pc[other] = "dead"

\* control.py 347-349: "if t and t.isAlive() and threading.currentThread()
\* != t: t.join()", for the reader thread and for the event thread.
MayPassJoin(t, other) == t = other \/ pc[other] = "dead"

\* _close() from its joins on: both threads have ended (or are the caller),
\* _notify_status_listeners(State.CLOSED, False) (line 351), and close()
\* returns, releasing the send lock.
CloseFinish(t) ==
  /\ pc[t] = "c_join"
  /\ MayPassJoin(t, READER)
  /\ MayPassJoin(t, EVENT)
  /\ notes' = Notified(CLOSED, FALSE, is_alive)
  /\ send_lock' = Returned(send_lock, t)
  /\ pc' = [pc EXCEPT ![t] = ret[t]]
  /\ ret' = [ret EXCEPT ![t] = "idle"]
  /\ UNCHANGED << sockv, recv_lock, msg_lock, queuev, is_change, wrote,
                  after_close, event_message, notifying, countv, handled,
                  transitions, sessv, wirev >>

\* BaseController.close(), control.py 248-254, called by the application.
CloseCall(t) ==
  /\ pc[t] = "idle"
  /\ pc' = [pc EXCEPT ![t] = "c_lock"]
  /\ ret' = [ret EXCEPT ![t] = "idle"]
  /\ UNCHANGED << sockv, lockv, queuev, is_change, wrote, after_close,
                  event_message, notifying, countv, histv, sessv, wirev >>

(***************************************************************************)
(* BaseController.msg, control.py 156-226                                  *)
(***************************************************************************)
\* The drain loop, lines 190-206: what is left of a queue it has emptied.
Drained(q) == << >>

\* A handler that re-raises the SocketClosed at once.
RaisesAtOnce == "m_raise"

\* control.py 219-226: where msg() goes with a SocketClosed it caught, to
\* self.close() before "raise exc".
OnSocketClosed == "c_lock"

\* msg() is entered, the msg lock taken (line 172) and the reply queue
\* drained of what it holds.
MsgCall(t) ==
  /\ pc[t] = "idle"
  /\ Ops < MaxOps
  /\ msg_lock = NoOne
  /\ msg_lock' = t
  /\ ncalls' = ncalls + 1
  /\ wrote' = FALSE
  /\ after_close' = (~is_alive /\ send_lock = Free)
  /\ reply_queue' = Drained(reply_queue)
  /\ pc' = [pc EXCEPT ![t] = "m_send"]
  /\ UNCHANGED << sockv, send_lock, recv_lock, event_queue, event_notice,
                  ret, is_change, event_message, notifying, nunasked,
                  nevents, nconnects, nnotifies, histv, sessv, wirev >>

\* A send() without the test of line 86.
SendRefusedNever(alive) == FALSE

\* ControlSocket.send, socket.py 86: "if not self.is_alive(): raise SocketClosed()".
SendRefused(alive) == ~alive

\* self._socket.send(message), line 209, on a socket that is not alive: send()
\* raises SocketClosed under the send lock, does not close (line 91: not
\* alive) and msg() catches it (line 219) and calls self.close().
MsgSendClosed(t) ==
  /\ pc[t] = "m_send"
  /\ CanAcquire(send_lock, t)
  /\ SendRefused(is_alive)
  /\ pc' = [pc EXCEPT ![t] = OnSocketClosed]
  /\ ret' = [ret EXCEPT ![t] = "m_raise"]
  /\ UNCHANGED << sockv, lockv, queuev, is_change, wrote, after_close,
                  event_message, notifying, countv, histv, sessv, wirev >>

\* send_message (socket.py 391-398) writes and flushes the command. The peer
\* will answer it if its end is still open.
MsgSendOk(t) ==
  /\ pc[t] = "m_send"
  /\ CanAcquire(send_lock, t)
  /\ ~SendRefused(is_alive)
  /\ wrote' = TRUE
  /\ pending' = IF peer_open THEN Append(pending, ncalls) ELSE pending
  /\ pc' = [pc EXCEPT ![t] = "m_wait"]
  /\ UNCHANGED << is_alive, sock_open, peer_open, lockv, queuev, ret,
                  is_change, after_close, event_message, notifying, countv,
                  histv, sessv, wirev >>

\* A send() that re-raises SocketClosed without closing.
ShutsDownNever(alive) == FALSE

\* socket.py 91: "if self.is_alive(): self.close()".
ShutsDown(alive) == alive

\* send_message fails with "[Errno 32] Broken pipe" (socket.py 406-407) or
\* finds the file closed (410-415): SocketClosed. send() holds the send lock
\* and, the socket being alive, calls close() (line 91).
MsgSendBrokenPipe(t) ==
  /\ pc[t] = "m_send"
  /\ CanAcquire(send_lock, t)
  /\ ~SendRefused(is_alive)
  /\ ~peer_open
  /\ send_lock' = Acquire(send_lock, t)
  /\ pc' = [pc EXCEPT ![t] = IF ShutsDown(is_alive) THEN "c_lock" ELSE "s_raise"]
  /\ ret' = [ret EXCEPT ![t] = "s_raise"]
  /\ UNCHANGED << sockv, recv_lock, msg_lock, queuev, is_change, wrote,
                  after_close, event_message, notifying, countv, histv,
                  sessv, wirev >>

\* send() re-raises (line 92) and leaves its "with self._send_lock"; msg()
\* catches the SocketClosed and calls self.close() (lines 219-225).
MsgSendRaise(t) ==
  /\ pc[t] = "s_raise"
  /\ send_lock' = Release(send_lock)
  /\ pc' = [pc EXCEPT ![t] = OnSocketClosed]
  /\ ret' = [ret EXCEPT ![t] = "m_raise"]
  /\ UNCHANGED << sockv, recv_lock, msg_lock, queuev, is_change, wrote,
                  after_close, event_message, notifying, countv, histv,
                  sessv, wirev >>

\* send_message fails with any other socket.error (socket.py 408-409):
\* SocketError, which neither send() nor msg() catches.
MsgSendError(t) ==
  /\ pc[t] = "m_send"
  /\ CanAcquire(send_lock, t)
  /\ ~SendRefused(is_alive)
  /\ ~peer_open
  /\ msg_lock' = NoOne
  /\ wrote' = FALSE
  /\ after_close' = FALSE
  /\ pc' = [pc EXCEPT ![t] = "idle"]
  /\ UNCHANGED << sockv, send_lock, recv_lock, queuev, ret, is_change,
                  event_message, notifying, countv, histv, sessv, wirev >>

\* response = self._reply_queue.get() (line 210) and lines 215-218: an
\* exception is raised, anything else returned. A SocketClosed goes through
\* the handler of line 219, which calls self.close() first.
MsgWait(t) ==
  /\ pc[t] = "m_wait"
  /\ reply_queue # << >>
  /\ reply_queue' = Tail(reply_queue)
  /\ LET response == Head(reply_queue) IN
       IF response.kind = "SocketClosed"
         THEN /\ pc' = [pc EXCEPT ![t] = OnSocketClosed]
              /\ ret' = [ret EXCEPT ![t] = "m_raise"]
              /\ UNCHANGED << msg_lock, wrote, after_close >>
         ELSE /\ msg_lock' = NoOne
              /\ wrote' = FALSE
              /\ after_close' = FALSE
              /\ pc' = [pc EXCEPT ![t] = "idle"]
              /\ ret' = ret
  /\ UNCHANGED << sockv, send_lock, recv_lock, event_queue, event_notice,
                  is_change, event_message, notifying, countv, histv, sessv,
                  wirev >>

\* Line 226: "raise exc", the SocketClosed, leaving the msg lock.
MsgRaise(t) ==
  /\ pc[t] = "m_raise"
  /\ msg_lock' = NoOne
  /\ wrote' = FALSE
  /\ after_close' = FALSE
  /\ pc' = [pc EXCEPT ![t] = "idle"]
  /\ UNCHANGED << sockv, send_lock, recv_lock, queuev, ret, is_change,
                  event_message, notifying, countv, histv, sessv, wirev >>

(***************************************************************************)
(* ControlSocket.connect, socket.py 157-185, with BaseController._connect, *)
(* control.py 333-336, and _launch_threads, 395-413.                       *)
(***************************************************************************)
\* A connect() that makes the new socket without closing the one it has.
ClosesFirstNever(alive) == FALSE

\* socket.py 170: "if self.is_alive(): self.close()".
ClosesFirst(alive) == alive

\* Lines 165-170: the send lock is taken and, if the socket is alive, close()
\* called.
ConnectCall(t) ==
  /\ pc[t] = "idle"
  /\ Ops < MaxOps
  /\ CanAcquire(send_lock, t)
  /\ nconnects' = nconnects + 1
  /\ after_close' = FALSE
  /\ send_lock' = Acquire(send_lock, t)
  /\ pc' = [pc EXCEPT ![t] = IF ClosesFirst(is_alive) THEN "c_lock" ELSE "k_make"]
  /\ ret' = [ret EXCEPT ![t] = IF ClosesFirst(is_alive) THEN "k_make" ELSE "idle"]
  /\ UNCHANGED << sockv, recv_lock, msg_lock, queuev, is_change, wrote,
                  event_message, notifying, ncalls, nunasked, nevents,
                  nnotifies, histv, sessv, wirev >>

\* _launch_threads, control.py 405-413: a thread is started unless the
\* previous one isAlive().
Launched(p, start) == IF p = "dead" THEN start ELSE p

\* Lines 172-185 with the recv lock: the new socket, _is_alive = True, then
\* _connect(): the threads are launched and the listeners notified of INIT.
\* Nothing in between is visible to another thread but is_alive.
ConnectMake(t) ==
  /\ pc[t] = "k_make"
  /\ recv_lock = NoOne
  /\ sock_open' = TRUE
  /\ peer_open' = TRUE
  /\ pending' = << >>
  /\ is_alive' = TRUE
  /\ transitions' = IF is_alive THEN transitions ELSE Append(transitions, INIT)
  /\ notes' = Notified(INIT, TRUE, TRUE)
  /\ send_lock' = Release(send_lock)
  /\ pc' = [pc EXCEPT ![t] = "idle",
                      ![READER] = Launched(pc[READER], "r_loop"),
                      ![EVENT] = Launched(pc[EVENT], "e_get")]
  /\ UNCHANGED << recv_lock, msg_lock, queuev, ret, is_change, wrote,
                  after_close, event_message, notifying, countv, handled,
                  sessv, wirev >>

\* _make_socket raises SocketError (socket.py 317-318, 356-357): connect()
\* fails, leaving the socket closed.
ConnectFail(t) ==
  /\ pc[t] = "k_make"
  /\ recv_lock = NoOne
  /\ send_lock' = Release(send_lock)
  /\ pc' = [pc EXCEPT ![t] = "idle"]
  /\ UNCHANGED << sockv, recv_lock, msg_lock, queuev, ret, is_change, wrote,
                  after_close, event_message, notifying, countv, histv,
                  sessv, wirev >>

(***************************************************************************)
(* BaseController._reader_loop, control.py 415-441, with                   *)
(* ControlSocket.recv, socket.py 94-135.                                   *)
(***************************************************************************)
\* The socket gives end of stream or an error to a reader.
SocketDown == ~sock_open \/ ~peer_open

\* Line 424, "while self.is_alive()", and recv() taking the recv lock
\* (socket.py 106).
ReaderLoop ==
  /\ pc[READER] = "r_loop"
  /\ ~(is_alive /\ SocketDown /\ send_lock.owner # NoOne
         /\ Len(reply_queue) >= MaxQueue)
  /\ IF is_alive
       THEN /\ recv_lock = NoOne
            /\ recv_lock' = READER
            /\ pc' = [pc EXCEPT ![READER] = "r_read"]
       ELSE /\ recv_lock' = recv_lock
            /\ pc' = [pc EXCEPT ![READER] = "r_exit"]
  /\ UNCHANGED << sockv, send_lock, msg_lock, queuev, ret, is_change, wrote,
                  after_close, event_message, notifying, countv, histv,
                  sessv, wirev >>

\* The loop has ended; the thread is still alive until it has terminated.
ReaderExit ==
  /\ pc[READER] = "r_exit"
  /\ pc' = [pc EXCEPT ![READER] = "dead"]
  /\ UNCHANGED << sockv, lockv, queuev, ret, is_change, wrote, after_close,
                  event_message, notifying, countv, histv, sessv, wirev >>

\* A reader that looks at the first line of the message instead of the last.
IsEventByFirstLine(m) == m.codes[1] = "650"

\* control.py 428: control_message.content()[-1][0] == "650".
IsEvent(m) == m.codes[Len(m.codes)] = "650"

\* A reader that calls _handle_event itself and is held by it for as long as
\* the handler runs.
RouteInline(m) ==
  /\ IF m.kind = "ControlMessage" /\ IsEvent(m)
       THEN /\ event_queue' = event_queue
            /\ reply_queue' = reply_queue
            /\ pc' = [pc EXCEPT ![READER] = "r_handle"]
       ELSE /\ reply_queue' = Append(reply_queue, m)
            /\ event_queue' = event_queue
            /\ pc' = [pc EXCEPT ![READER] = "r_loop"]
  /\ nevents' = IF m.kind = "ControlMessage" /\ m.codes[Len(m.codes)] = "650"
                  THEN nevents + 1 ELSE nevents
  /\ recv_lock' = NoOne

\* Lines 428-434 and 441: where the reader puts what recv() gave it, having
\* left the recv lock.
Route(m) ==
  /\ IF m.kind = "ControlMessage" /\ IsEvent(m)
       THEN /\ event_queue' = Append(event_queue, m)
            /\ reply_queue' = reply_queue
            /\ pc' = [pc EXCEPT ![READER] = "r_set"]
       ELSE /\ reply_queue' = Append(reply_queue, m)
            /\ event_queue' = event_queue
            /\ pc' = [pc EXCEPT ![READER] = "r_loop"]
  /\ nevents' = IF m.kind = "ControlMessage" /\ m.codes[Len(m.codes)] = "650"
                  THEN nevents + 1 ELSE nevents
  /\ recv_lock' = NoOne

\* recv_message returns the peer's answer to the oldest unanswered command.
ReaderReadReply ==
  /\ pc[READER] = "r_read"
  /\ ~SocketDown
  /\ pending # << >>
  /\ pending' = Tail(pending)
  /\ \E c \in ReplyShapes : Route(ControlMessage(c, Head(pending), 0))
  /\ UNCHANGED << is_alive, sock_open, peer_open, send_lock, msg_lock,
                  event_notice, ret, is_change, wrote, after_close,
                  event_message, notifying, ncalls, nunasked, nconnects,
                  nnotifies, histv, sessv, wirev >>

\* The answer is malformed: recv_message raises ProtocolError (socket.py
\* 465-476), which recv() lets through.
ReaderReadBadReply ==
  /\ pc[READER] = "r_read"
  /\ ~SocketDown
  /\ pending # << >>
  /\ pending' = Tail(pending)
  /\ Route(ProtocolError(Head(pending), 0))
  /\ UNCHANGED << is_alive, sock_open, peer_open, send_lock, msg_lock,
                  event_notice, ret, is_change, wrote, after_close,
                  event_message, notifying, ncalls, nunasked, nconnects,
                  nnotifies, histv, sessv, wirev >>

\* recv_message returns a message the peer sent unasked.
ReaderReadUnasked ==
  /\ pc[READER] = "r_read"
  /\ ~SocketDown
  /\ Ops < MaxOps
  /\ nunasked' = nunasked + 1
  /\ \E c \in EventShapes : Route(ControlMessage(c, 0, nunasked + 1))
  /\ UNCHANGED << sockv, send_lock, msg_lock, event_notice, ret, is_change,
                  wrote, after_close, event_message, notifying, ncalls,
                  nconnects, nnotifies, histv, sessv, wirev >>

\* The message sent unasked is malformed: ProtocolError.
ReaderReadBadUnasked ==
  /\ pc[READER] = "r_read"
  /\ ~SocketDown
  /\ Ops < MaxOps
  /\ nunasked' = nunasked + 1
  /\ Route(ProtocolError(0, nunasked + 1))
  /\ UNCHANGED << sockv, send_lock, msg_lock, event_notice, ret, is_change,
                  wrote, after_close, event_message, notifying, ncalls,
                  nconnects, nnotifies, histv, sessv, wirev >>

\* The socket is shut or at end of stream: recv_message raises SocketClosed
\* (socket.py 113, 438-464), caught at line 115. Lines 130-133: "if
\* self.is_alive(): if self._send_lock.acquire(False): self.close()".
ReaderReadClosed ==
  /\ pc[READER] = "r_read"
  /\ SocketDown
  /\ IF is_alive /\ send_lock.owner = NoOne
       THEN /\ send_lock' = Acquire(send_lock, READER)
            /\ pc' = [pc EXCEPT ![READER] = "c_lock"]
            /\ ret' = [ret EXCEPT ![READER] = "r_raise"]
       ELSE /\ pc' = [pc EXCEPT ![READER] = "r_raise"]
            /\ UNCHANGED << send_lock, ret >>
  /\ UNCHANGED << sockv, recv_lock, msg_lock, queuev, is_change, wrote,
                  after_close, event_message, notifying, countv, histv,
                  sessv, wirev >>

\* socket.py 135 "raise exc", leaving the recv lock, and control.py 435-441:
\* the exception is put in the reply queue.
ReaderRaise ==
  /\ pc[READER] = "r_raise"
  /\ recv_lock' = NoOne
  /\ reply_queue' = Append(reply_queue, SocketClosed)
  /\ pc' = [pc EXCEPT ![READER] = "r_loop"]
  /\ UNCHANGED << sockv, send_lock, msg_lock, event_queue, event_notice,
                  ret, is_change, wrote, after_close, event_message,
                  notifying, countv, histv, sessv, wirev >>

\* control.py 431: self._event_notice.set().
ReaderSet ==
  /\ pc[READER] = "r_set"
  /\ event_notice' = TRUE
  /\ pc' = [pc EXCEPT ![READER] = "r_loop"]
  /\ UNCHANGED << sockv, lockv, reply_queue, event_queue, ret, is_change,
                  wrote, after_close, event_message, notifying, countv,
                  histv, sessv, wirev >>

(***************************************************************************)
(* BaseController._event_loop, control.py 443-459                          *)
(***************************************************************************)
\* Queue.Queue is first in, first out.
QueueGet(q) == Head(q)
QueueRest(q) == Tail(q)

\* Line 453: self._event_queue.get_nowait().
EventGet ==
  /\ pc[EVENT] = "e_get"
  /\ IF event_queue # << >>
       THEN /\ event_message' = QueueGet(event_queue)
            /\ event_queue' = QueueRest(event_queue)
            /\ pc' = [pc EXCEPT ![EVENT] = "e_handle"]
       ELSE /\ pc' = [pc EXCEPT ![EVENT] = "e_check"]
            /\ UNCHANGED << event_message, event_queue >>
  /\ UNCHANGED << sockv, lockv, reply_queue, event_notice, ret, is_change,
                  wrote, after_close, notifying, countv, histv, sessv, wirev >>

\* Line 454: self._handle_event(event_message).
EventHandle ==
  /\ pc[EVENT] = "e_handle"
  /\ handled' = Append(handled, event_message)
  /\ event_message' = Nothing
  /\ pc' = [pc EXCEPT ![EVENT] = "e_get"]
  /\ UNCHANGED << sockv, lockv, queuev, ret, is_change, wrote, after_close,
                  notifying, countv, notes, transitions, sessv, wirev >>

\* Line 456: "if not self.is_alive(): break".
EventCheck ==
  /\ pc[EVENT] = "e_check"
  /\ pc' = [pc EXCEPT ![EVENT] = IF is_alive THEN "e_wait" ELSE "e_exit"]
  /\ UNCHANGED << sockv, lockv, queuev, ret, is_change, wrote, after_close,
                  event_message, notifying, countv, histv, sessv, wirev >>

\* The loop has ended; the thread is still alive until it has terminated.
EventExit ==
  /\ pc[EVENT] = "e_exit"
  /\ pc' = [pc EXCEPT ![EVENT] = "dead"]
  /\ UNCHANGED << sockv, lockv, queuev, ret, is_change, wrote, after_close,
                  event_message, notifying, countv, histv, sessv, wirev >>

\* Line 458: self._event_notice.wait().
EventWait ==
  /\ pc[EVENT] = "e_wait"
  /\ event_notice
  /\ pc' = [pc EXCEPT ![EVENT] = "e_clear"]
  /\ UNCHANGED << sockv, lockv, queuev, ret, is_change, wrote, after_close,
                  event_message, notifying, countv, histv, sessv, wirev >>

\* Line 459: self._event_notice.clear().
EventClear ==
  /\ pc[EVENT] = "e_clear"
  /\ event_notice' = FALSE
  /\ pc' = [pc EXCEPT ![EVENT] = "e_get"]
  /\ UNCHANGED << sockv, lockv, reply_queue, event_queue, ret, is_change,
                  wrote, after_close, event_message, notifying, countv,
                  histv, sessv, wirev >>

(***************************************************************************)
(* The peer                                                                *)
(***************************************************************************)
\* The peer closes its end of the socket.
PeerClose ==
  /\ sock_open
  /\ peer_open
  /\ peer_open' = FALSE
  /\ UNCHANGED << is_alive, sock_open, pending, lockv, queuev, localv,
                  countv, histv, sessv, wirev >>

Next ==
  \/ \E t \in {CALLER} : MsgCall(t)
  \/ \E t \in {CALLER} : MsgSendClosed(t)
  \/ \E t \in {CALLER} : MsgSendOk(t)
  \/ \E t \in {CALLER} : MsgSendBrokenPipe(t)
  \/ \E t \in {CALLER} : MsgSendRaise(t)
  \/ \E t \in {CALLER} : MsgSendError(t)
  \/ \E t \in {CALLER} : MsgWait(t)
  \/ \E t \in {CALLER} : MsgRaise(t)
  \/ \E t \in {CONTROL} : CloseCall(t)
  \/ \E t \in {CONTROL} : ConnectCall(t)
  \/ \E t \in {CONTROL} : ConnectMake(t)
  \/ \E t \in {CONTROL} : ConnectFail(t)
  \/ \E t \in Apps \cup {READER} : CloseLock(t)
  \/ \E t \in Apps \cup {READER} : CloseDead(t)
  \/ \E t \in Apps \cup {READER} : CloseFinish(t)
  \/ ReaderLoop
  \/ ReaderExit
  \/ ReaderReadReply
  \/ ReaderReadBadReply
  \/ ReaderReadUnasked
  \/ ReaderReadBadUnasked
  \/ ReaderReadClosed
  \/ ReaderRaise
  \/ ReaderSet
  \/ EventGet
  \/ EventHandle
  \/ EventCheck
  \/ EventExit
  \/ EventWait
  \/ EventClear
  \/ PeerClose

(***************************************************************************)
(* A subclass of BaseController, as the class allows for: its              *)
(* _handle_event ("to be overwritten by subclasses", control.py 322-331)   *)
(* may call close(), which is why _close compares each thread with the     *)
(* current one (348), and it tells its listeners of State.RESET with       *)
(* _notify_status_listeners (docstring, 358-366).                          *)
(***************************************************************************)
\* Line 454, self._handle_event(event_message), with a handler that calls
\* close().
EventHandleClose ==
  /\ pc[EVENT] = "e_handle"
  /\ handled' = Append(handled, event_message)
  /\ event_message' = Nothing
  /\ pc' = [pc EXCEPT ![EVENT] = "c_lock"]
  /\ ret' = [ret EXCEPT ![EVENT] = "e_get"]
  /\ UNCHANGED << sockv, lockv, queuev, is_change, wrote, after_close,
                  notifying, countv, notes, transitions, sessv, wirev >>

\* An application thread calls _notify_status_listeners(State.RESET,
\* expect_alive).
NotifyCall(t) ==
  /\ pc[t] = "idle"
  /\ Ops < MaxOps
  /\ nnotifies' = nnotifies + 1
  /\ \E expect_alive \in BOOLEAN :
       notifying' = [state |-> RESET, expect_alive |-> expect_alive]
  /\ pc' = [pc EXCEPT ![t] = "n_lock"]
  /\ UNCHANGED << sockv, lockv, queuev, ret, is_change, wrote, after_close,
                  event_message, ncalls, nunasked, nevents, nconnects,
                  histv, sessv, wirev >>

\* Lines 377-393: the send lock is taken and expect_alive compared with
\* is_alive(); on a conflict the call returns, otherwise the listeners are
\* told, the synchronous one by a call made in this thread.
NotifyGate(t) ==
  /\ pc[t] = "n_lock"
  /\ CanAcquire(send_lock, t)
  /\ notes' = Notified(notifying.state, notifying.expect_alive, is_alive)
  /\ IF notes' = notes
       THEN /\ notifying' = NoNotice
            /\ pc' = [pc EXCEPT ![t] = "idle"]
            /\ send_lock' = send_lock
       ELSE /\ notifying' = notifying
            /\ pc' = [pc EXCEPT ![t] = "n_call"]
            /\ send_lock' = Acquire(send_lock, t)
  /\ UNCHANGED << sockv, recv_lock, msg_lock, queuev, ret, is_change, wrote,
                  after_close, event_message, countv, handled, transitions,
                  sessv, wirev >>

\* The synchronous listener returns (line 393) and the locks are left.
NotifyReturn(t) ==
  /\ pc[t] = "n_call"
  /\ notifying' = NoNotice
  /\ send_lock' = Release(send_lock)
  /\ pc' = [pc EXCEPT ![t] = "idle"]
  /\ UNCHANGED << sockv, recv_lock, msg_lock, queuev, ret, is_change, wrote,
                  after_close, event_message, countv, histv, sessv, wirev >>

NextSubclass ==
  \/ Next
  \/ EventHandleClose
  \/ \E t \in {EVENT} : CloseLock(t)
  \/ \E t \in {EVENT} : CloseDead(t)
  \/ \E t \in {EVENT} : CloseFinish(t)
  \/ \E t \in {CONTROL} : NotifyCall(t)
  \/ \E t \in {CONTROL} : NotifyGate(t)
  \/ \E t \in {CONTROL} : NotifyReturn(t)

\* The threads without msg(): close(), connect() and the notification are
\* called by one application thread.
NextWorkers ==
  \/ \E t \in {CONTROL} : CloseCall(t)
  \/ \E t \in {CONTROL} : ConnectCall(t)
  \/ \E t \in {CONTROL} : ConnectMake(t)
  \/ \E t \in {CONTROL} : ConnectFail(t)
  \/ \E t \in {CONTROL} : NotifyCall(t)
  \/ \E t \in {CONTROL} : NotifyGate(t)
  \/ \E t \in {CONTROL} : NotifyReturn(t)
  \/ \E t \in {CONTROL, READER, EVENT} : CloseLock(t)
  \/ \E t \in {CONTROL, READER, EVENT} : CloseDead(t)
  \/ \E t \in {CONTROL, READER, EVENT} : CloseFinish(t)
  \/ ReaderLoop
  \/ ReaderExit
  \/ ReaderReadUnasked
  \/ ReaderReadBadUnasked
  \/ ReaderReadClosed
  \/ ReaderRaise
  \/ ReaderSet
  \/ EventGet
  \/ EventHandle
  \/ EventHandleClose
  \/ EventCheck
  \/ EventExit
  \/ EventWait
  \/ EventClear
  \/ PeerClose

\* The threads of a BaseController as it is, its _handle_event doing nothing:
\* close() and connect() are called by one application thread.
NextBase ==
  \/ \E t \in {CONTROL} : CloseCall(t)
  \/ \E t \in {CONTROL} : ConnectCall(t)
  \/ \E t \in {CONTROL} : ConnectMake(t)
  \/ \E t \in {CONTROL} : ConnectFail(t)
  \/ \E t \in {CONTROL, READER} : CloseLock(t)
  \/ \E t \in {CONTROL, READER} : CloseDead(t)
  \/ \E t \in {CONTROL, READER} : CloseFinish(t)
  \/ ReaderLoop
  \/ ReaderExit
  \/ ReaderReadUnasked
  \/ ReaderReadBadUnasked
  \/ ReaderReadClosed
  \/ ReaderRaise
  \/ ReaderSet
  \/ EventGet
  \/ EventHandle
  \/ EventCheck
  \/ EventExit
  \/ EventWait
  \/ EventClear
  \/ PeerClose

\* The steps a thread takes by itself once it can: those of the reader thread
\* but for a read that the peer has to answer, those of the event thread, and
\* those that carry on a call the application has made.
Closes(t) == CloseLock(t) \/ CloseDead(t) \/ CloseFinish(t)

ReaderRuns ==
  \/ ReaderLoop
  \/ ReaderExit
  \/ ReaderReadClosed
  \/ ReaderRaise
  \/ ReaderSet
  \/ Closes(READER)

EventRuns ==
  \/ EventGet
  \/ EventHandle
  \/ EventHandleClose
  \/ EventCheck
  \/ EventExit
  \/ EventWait
  \/ EventClear
  \/ Closes(EVENT)

ControlRuns ==
  \/ Closes(CONTROL)
  \/ ConnectMake(CONTROL)
  \/ ConnectFail(CONTROL)
  \/ NotifyGate(CONTROL)
  \/ NotifyReturn(CONTROL)

\* msg() calls on a connection nobody else closes or remakes: the calling
\* thread, the reader, the event thread and the peer.
NextMsg ==
  \/ \E t \in {CALLER} : MsgCall(t)
  \/ \E t \in {CALLER} : MsgSendClosed(t)
  \/ \E t \in {CALLER} : MsgSendOk(t)
  \/ \E t \in {CALLER} : MsgSendBrokenPipe(t)
  \/ \E t \in {CALLER} : MsgSendRaise(t)
  \/ \E t \in {CALLER} : MsgSendError(t)
  \/ \E t \in {CALLER} : MsgWait(t)
  \/ \E t \in {CALLER} : MsgRaise(t)
  \/ \E t \in {CALLER, READER} : CloseLock(t)
  \/ \E t \in {CALLER, READER} : CloseDead(t)
  \/ \E t \in {CALLER, READER} : CloseFinish(t)
  \/ ReaderLoop
  \/ ReaderExit
  \/ ReaderReadReply
  \/ ReaderReadBadReply
  \/ ReaderReadUnasked
  \/ ReaderReadBadUnasked
  \/ ReaderReadClosed
  \/ ReaderRaise
  \/ ReaderSet
  \/ EventGet
  \/ EventHandle
  \/ EventCheck
  \/ EventExit
  \/ EventWait
  \/ EventClear
  \/ PeerClose

\* The steps of a msg() call once it is made.
CallerRuns ==
  \/ MsgSendClosed(CALLER)
  \/ MsgSendOk(CALLER)
  \/ MsgSendBrokenPipe(CALLER)
  \/ MsgSendRaise(CALLER)
  \/ MsgSendError(CALLER)
  \/ MsgWait(CALLER)
  \/ MsgRaise(CALLER)
  \/ Closes(CALLER)

\* The peer answers a command it has received.
PeerAnswers == ReaderReadReply \/ ReaderReadBadReply

(***************************************************************************)
(* The wire codec: stem.socket.recv_message, socket.py 417-530, and        *)
(* stem.socket.send_formatting, socket.py 532-558. Text is a sequence of   *)
(* characters. The control file is the lines that have arrived for its     *)
(* readline() to return, how many more the peer may still send ("more")    *)
(* and what readline() does when the lines are used up ("end"): "open"     *)
(* while the peer has not closed.                                          *)
(***************************************************************************)
CRLF == << "\r", "\n" >>

\* The letters and digits among the characters of the model.
Alnum == {"0", "2", "5", "a", "O", "K"}

\* str.endswith(suffix)
EndsWith(line, suffix) ==
  /\ Len(line) >= Len(suffix)
  /\ SubSeq(line, Len(line) - Len(suffix) + 1, Len(line)) = suffix

\* A decoder that takes any four characters before the line break for a
\* status code and a divider.
MatchesAnything(line) == Len(line) >= 6

\* socket.py 469: re.match(r'^[a-zA-Z0-9]{3}[-+ ]', line).
MatchesStatus(line) ==
  /\ Len(line) >= 4
  /\ \A i \in 1..3 : line[i] \in Alnum
  /\ line[4] \in {"-", "+", " "}

\* A decoder that keeps the data lines as they were sent.
Stuffed(line) == line

\* socket.py 516: if line.startswith(".."): line = line[1:].
Unstuffed(line) ==
  IF Len(line) >= 2 /\ line[1] = "." /\ line[2] = "." THEN Tail(line) ELSE line

\* An entry of parsed_content: (status_code, divider, content).
Entry(status_code, divider, content) ==
  [status_code |-> status_code, divider |-> divider, content |-> content]
NoEntry == Entry(<< >>, "", << >>)

\* What recv_message comes to: a ControlMessage of the parsed content or an
\* exception; Reading while it has not come to either.
Reading == [kind |-> "none", content |-> << >>]
Received(parsed) == [kind |-> "ControlMessage", content |-> parsed]
Raised(kind) == [kind |-> kind, content |-> << >>]

\* control_file.readline(): the next line; when there is none left the empty
\* string at the end of the stream, socket.error from a socket that is no
\* longer connected, or AttributeError from a file that has been closed.
Readline(file) ==
  IF file.lines # << >> THEN [raised |-> "none", line |-> Head(file.lines)]
  ELSE IF file.end = "eof" THEN [raised |-> "none", line |-> << >>]
  ELSE [raised |-> file.end, line |-> << >>]

\* The file after that readline().
Rest(file) ==
  IF file.lines # << >> THEN [file EXCEPT !.lines = Tail(file.lines)] ELSE file

\* The status code of the model's well-formed lines.
Code == << "2", "5", "0" >>

\* Lines a peer may send, each with its line break: a mid-reply line, an end
\* line, the first line of a data block, a line whose code is not
\* alphanumeric, one whose divider is none of the three, one that ends in LF
\* alone, the end of a data block, a line that begins with two periods and a
\* line of fewer than four characters.
CompleteLines ==
  { Code \o << "-", "a" >> \o CRLF,
    Code \o << " ", "a" >> \o CRLF,
    Code \o << "+", "a" >> \o CRLF,
    << "2", "#", "0", " ", "a" >> \o CRLF,
    Code \o << "=", "a" >> \o CRLF,
    Code \o << " ", "a", "\n" >>,
    << "." >> \o CRLF,
    << ".", ".", "a" >> \o CRLF,
    << "a" >> \o CRLF }

\* What a stream may end with when the peer closes in the middle of a line.
PartialLines == { Code \o << " ", "a" >>, << "a" >> }

\* What the peer does next on a connection that is open and may carry n more
\* lines: it sends one, or the stream ends, at a line break or within a
\* line, or readline() raises.
Arrivals(n) ==
  {[lines |-> << l >>, more |-> n - 1, end |-> "open"] :
     l \in IF n > 0 THEN CompleteLines ELSE {}}
    \cup {[lines |-> << >>, more |-> 0, end |-> e] :
            e \in {"eof", "socket.error", "AttributeError"}}
    \cup {[lines |-> << p >>, more |-> 0, end |-> "eof"] : p \in PartialLines}

\* The control files recv_message may find itself with after a readline().
Rests(file) ==
  IF Rest(file).lines = << >> /\ file.end = "open"
    THEN Arrivals(file.more)
    ELSE {Rest(file)}

\* Lines 436-476: what recv_message raises for the line it read where a
\* reply line is due, "none" if the line is well formed.
LineError(read) ==
  IF read.raised \in {"AttributeError", "socket.error"} THEN "SocketClosed"
  ELSE IF Len(read.line) = 0 THEN "SocketClosed"
  ELSE IF Len(read.line) < 4 THEN "ProtocolError"
  ELSE IF ~MatchesStatus(read.line) THEN "ProtocolError"
  ELSE IF ~EndsWith(read.line, CRLF) THEN "ProtocolError"
  ELSE "none"

\* Lines 496-508: the same for a line read inside a data block. Only
\* socket.error is caught there; an AttributeError leaves recv_message as it
\* is.
DataError(read) ==
  IF read.raised = "socket.error" THEN "SocketClosed"
  ELSE IF read.raised = "AttributeError" THEN "AttributeError"
  ELSE IF ~EndsWith(read.line, CRLF) THEN "ProtocolError"
  ELSE "none"

\* Line 478: line[:-2].
Stripped(line) == SubSeq(line, 1, Len(line) - 2)

\* A split that takes the third character for the divider.
ParsedByThird(line) ==
  Entry(SubSeq(line, 1, 3), line[3], SubSeq(line, 5, Len(line)))

\* Line 479: status_code, divider, content = line[:3], line[3], line[4:].
Parsed(line) ==
  Entry(SubSeq(line, 1, 3), line[4], SubSeq(line, 5, Len(line)))

\* Line 522: content += "\n" + line.
Joined(content, line) == content \o << "\n" >> \o line

\* recv_message reads a line where a reply line is due (lines 436-492): it
\* raises, or records the entry and goes on, returns the message, or enters
\* the data block. Lines 525-530: any other divider raises ProtocolError.
RecvLine ==
  /\ received = Reading
  /\ data_entry = NoEntry
  /\ LET read == Readline(control_file)
         parsed == Parsed(Stripped(read.line))
     IN  /\ control_file' \in Rests(control_file)
         /\ IF LineError(read) # "none"
              THEN /\ received' = Raised(LineError(read))
                   /\ UNCHANGED << parsed_content, data_entry >>
            ELSE IF parsed.divider = "-"
              THEN /\ parsed_content' = Append(parsed_content, parsed)
                   /\ UNCHANGED << received, data_entry >>
            ELSE IF parsed.divider = " "
              THEN /\ parsed_content' = Append(parsed_content, parsed)
                   /\ received' = Received(parsed_content')
                   /\ data_entry' = data_entry
            ELSE IF parsed.divider = "+"
              THEN /\ data_entry' = parsed
                   /\ UNCHANGED << received, parsed_content >>
            ELSE /\ received' = Raised("ProtocolError")
                 /\ UNCHANGED << parsed_content, data_entry >>
  /\ UNCHANGED << sockv, lockv, queuev, localv, countv, histv, sessv,
                  formatted >>

\* recv_message reads a line of a data block (lines 496-524): it raises,
\* ends the block at a line that is a period and records the entry, or adds
\* the line to the entry's content.
RecvData ==
  /\ received = Reading
  /\ data_entry # NoEntry
  /\ LET read == Readline(control_file)
     IN  /\ control_file' \in Rests(control_file)
         /\ IF DataError(read) # "none"
              THEN /\ received' = Raised(DataError(read))
                   /\ UNCHANGED << parsed_content, data_entry >>
            ELSE IF read.line = << "." >> \o CRLF
              THEN /\ parsed_content' = Append(parsed_content, data_entry)
                   /\ data_entry' = NoEntry
                   /\ received' = received
            ELSE /\ data_entry' = [data_entry EXCEPT !.content =
                                Joined(@, Unstuffed(Stripped(read.line)))]
                 /\ UNCHANGED << received, parsed_content >>
  /\ UNCHANGED << sockv, lockv, queuev, localv, countv, histv, sessv,
                  formatted >>

\* str.replace("\r\n", "\n"), socket.py 553.
RECURSIVE Normalized(_)
Normalized(message) ==
  IF message = << >> THEN << >>
  ELSE IF Len(message) >= 2 /\ SubSeq(message, 1, 2) = CRLF
    THEN << "\n" >> \o Normalized(SubSeq(message, 3, Len(message)))
  ELSE << Head(message) >> \o Normalized(Tail(message))

\* str.replace("\n", "\r\n"), socket.py 556.
RECURSIVE Expanded(_)
Expanded(message) ==
  IF message = << >> THEN << >>
  ELSE (IF Head(message) = "\n" THEN CRLF ELSE << Head(message) >>)
         \o Expanded(Tail(message))

\* c in message
Contains(message, c) == \E i \in DOMAIN message : message[i] = c

\* send_formatting(message), socket.py 553-558.
send_formatting(message) ==
  LET m == Normalized(message)
  IN  IF Contains(m, "\n")
        THEN << "+" >> \o Expanded(m) \o CRLF \o << "." >> \o CRLF
        ELSE m \o CRLF

\* The lines a file object's readline() cuts a text into: each up to and
\* with its "\n", the last one without if the text does not end in "\n".
RECURSIVE Readlines(_)
Readlines(text) ==
  IF text = << >> THEN << >>
  ELSE LET ends == {i \in DOMAIN text : text[i] = "\n"}
           n == IF ends = {} THEN Len(text)
                ELSE CHOOSE i \in ends : \A j \in ends : i <= j
       IN  << SubSeq(text, 1, n) >> \o Readlines(SubSeq(text, n + 1, Len(text)))

\* The sequences over S of at most n elements.
RECURSIVE SeqsUpTo(_, _)
SeqsUpTo(S, n) ==
  IF n = 0 THEN {<< >>}
  ELSE LET shorter == SeqsUpTo(S, n - 1)
       IN  shorter \cup {Append(s, e) : s \in {t \in shorter : Len(t) = n - 1},
                                        e \in S}

\* The messages given to send_formatting: up to MaxText characters.
Messages == SeqsUpTo({"a", ".", "\r", "\n"}, MaxText)

\* The bytes of send_formatting(message) as a peer would send them in a reply:
\* behind a status code, which a command has none of, and with an end line
\* after a data block.
Framed(message) ==
  LET bytes == send_formatting(message)
  IN  IF Head(bytes) = "+"
        THEN Code \o bytes \o Code \o << " ", "O", "K" >> \o CRLF
        ELSE Code \o << " " >> \o bytes

\* No message was formatted.
NotSent == [given |-> FALSE, text |-> << >>]
Sent(message) == [given |-> TRUE, text |-> message]

\* recv_message is entered with a control file (line 433).
InitCodec(file, message) ==
  /\ control_file = file
  /\ formatted = message
  /\ parsed_content = << >>
  /\ data_entry = NoEntry
  /\ received = Reading

NoFile == [lines |-> << >>, more |-> 0, end |-> "eof"]

(***************************************************************************)
(* The session: stem.control.Controller, control.py 461-669. Its calls are *)
(* made one after another here, and the transport below it is what a call  *)
(* sees of it: msg() writes a command and brings back the peer's answer,   *)
(* or raises.                                                              *)
(***************************************************************************)
\* GETINFO parameters the application asks for.
Params == {"version", "Version", "traffic/read", "ip-to-country/1.2.3.4"}

\* Values the peer answers with.
Values == {"a", "b"}

\* control.py 79
UNDEFINED == "<Undefined_ >"

\* control.py 93-104
CACHEABLE_GETINFO_PARAMS ==
  { "version", "config-file", "exit-policy/default", "fingerprint",
    "config/names", "config/defaults", "info/names", "events/names",
    "features/names", "process/descriptor-limit" }

\* str.lower(), on the strings of the model.
Lower(s) ==
  CASE s = "Version" -> "version"
    [] s = "ExitPolicy" -> "exitpolicy"
    [] s = "HiddenServicePort" -> "hiddenserviceport"
    [] s = "HiddenServiceOptions" -> "hiddenserviceoptions"
    [] OTHER -> s

\* s.startswith('ip-to-country/'), on the strings of the model.
IsGeoip(s) == s \in {"ip-to-country/1.2.3.4"}

\* "getinfo.%s" % key: the key of _request_cache.
CacheKey(namespace, key) == << namespace, key >>

\* What get_info can be asked: one key, or a collection of one or two (an
\* empty one returns {} at once, line 589).
Requests == {{p, q} : p \in Params, q \in Params}

\* A command as msg() writes it: the verb and the arguments after it.
Command(verb, arguments) == [verb |-> verb, arguments |-> arguments]

\* A dict without entries.
Empty == [k \in {} |-> Nothing]

\* dict.update: d with the entries of e written over it.
Updated(d, e) ==
  [k \in DOMAIN d \cup DOMAIN e |-> IF k \in DOMAIN e THEN e[k] ELSE d[k]]

\* Configuration keys as tor spells them in its answers.
TorKeys == {"ExitPolicy", "HiddenServicePort"}

\* The values tor holds for an option that has not been set.
TorDefaults == [k \in TorKeys |-> << "b" >>]

\* The session's initial state: Controller.__init__, control.py 504-512.
InitController(enable_caching) ==
  /\ is_caching_enabled = enable_caching
  /\ request_cache = Empty
  /\ geoip_failure_count = 0
  /\ nrequests = 0
  /\ wire = 0
  /\ fetched = Empty
  /\ geoip_lookups = [failed |-> 0, succeeded |-> FALSE]
  /\ command = Nothing
  /\ answer = Empty
  /\ tor_conf = TorDefaults
  /\ enabled_features = << >>
  /\ last = [op |-> "none", params |-> {}, multiple |-> FALSE,
             outcome |-> "none", value |-> Nothing, entries |-> 0,
             default |-> UNDEFINED]

Init == InitTransport /\ InitController(TRUE) /\ InitCodec(NoFile, NotSent)

\* What the ghost variable "last" becomes for a call that is returning:
\* "entries" is the number of cache entries the call found, "default" the
\* default a call was given that did not come to a value of its own.
Returning(op, params, outcome, value) ==
  [op |-> op, params |-> params, multiple |-> FALSE, outcome |-> outcome,
   value |-> value, entries |-> Cardinality(DOMAIN request_cache),
   default |-> UNDEFINED]

\* The same for a call that failed, given a default or UNDEFINED.
Failing(op, params, is_multiple, outcome, value, default) ==
  [Returning(op, params, outcome, value)
     EXCEPT !.multiple = is_multiple, !.default = default]

\* The same for get_info, asked for one key or for a collection of keys.
Answering(params, is_multiple, outcome, value) ==
  [Returning("get_info", params, outcome, value) EXCEPT !.multiple = is_multiple]

\* control.py 548: self._geoip_failure_count >= GEOIP_FAILURE_THRESHOLD.
is_geoip_unavailable == geoip_failure_count >= GEOIP_FAILURE_THRESHOLD

\* A clear_cache() that leaves the entries in place.
ClearedOfNothing(cache) == cache

\* control.py 555: self._request_cache = {}.
Cleared(cache) == Empty

\* Controller.clear_cache, control.py 550-556.
ClearCache ==
  /\ nrequests < MaxRequests
  /\ nrequests' = nrequests + 1
  /\ request_cache' = Cleared(request_cache)
  /\ geoip_failure_count' = 0
  /\ fetched' = Empty
  /\ geoip_lookups' = [geoip_lookups EXCEPT !.failed = 0]
  /\ last' = Returning("clear_cache", {}, "return", Nothing)
  /\ UNCHANGED << sockv, lockv, queuev, localv, countv, histv,
                  is_caching_enabled, wire, command, answer, tor_conf,
                  enabled_features, wirev >>

\* Controller.connect, control.py 514-516: BaseController.connect(), which
\* makes the socket alive, then clear_cache().
ControllerConnect ==
  /\ nrequests < MaxRequests
  /\ nrequests' = nrequests + 1
  /\ is_alive' = TRUE
  /\ sock_open' = TRUE
  /\ peer_open' = TRUE
  /\ request_cache' = Cleared(request_cache)
  /\ geoip_failure_count' = 0
  /\ fetched' = Empty
  /\ geoip_lookups' = [failed |-> 0, succeeded |-> FALSE]
  /\ last' = Returning("connect", {}, "return", Nothing)
  /\ UNCHANGED << pending, lockv, queuev, localv, countv, histv,
                  is_caching_enabled, wire, command, answer, tor_conf,
                  enabled_features, wirev >>

\* Controller.connect when _make_socket raises SocketError: the exception
\* leaves connect() at line 515, before clear_cache(). A socket that was
\* alive has been closed (socket.py 170).
ControllerConnectFail ==
  /\ nrequests < MaxRequests
  /\ nrequests' = nrequests + 1
  /\ is_alive' = FALSE
  /\ sock_open' = FALSE
  /\ last' = Returning("connect", {}, "raise", SocketError)
  /\ UNCHANGED << peer_open, pending, lockv, queuev, localv, countv, histv,
                  is_caching_enabled, request_cache, geoip_failure_count,
                  wire, fetched, geoip_lookups, command, answer, tor_conf,
                  enabled_features, wirev >>

\* Controller.close, control.py 518-524: a QUIT is sent if the socket is
\* alive, then the socket closed. The cache is not touched.
ControllerClose ==
  /\ nrequests < MaxRequests
  /\ nrequests' = nrequests + 1
  /\ wire' = IF is_alive THEN wire + 1 ELSE wire
  /\ is_alive' = FALSE
  /\ sock_open' = FALSE
  /\ last' = Returning("close", {}, "return", Nothing)
  /\ UNCHANGED << peer_open, pending, lockv, queuev, localv, countv, histv,
                  is_caching_enabled, request_cache, geoip_failure_count,
                  fetched, geoip_lookups, command, answer, tor_conf,
                  enabled_features, wirev >>

\* What the peer's answer to "GETINFO <params>" converts to: response.entries
\* after stem.response.convert("GETINFO", response), a map from the keys the
\* peer answered to their values. The peer may leave keys out.
Answers(params) == UNION {[keys -> Values] : keys \in SUBSET params}

\* response.assert_matches(params): the answer must hold every requested key.
Matches(entries, params) == params \subseteq DOMAIN entries

\* A get_info that caches under the key as the peer spelled it.
StoreKeyAsGiven(key) == key

\* control.py 619: key = key.lower().
StoreKey(key) == Lower(key)

\* control.py 621-626: whether an answered key, lowercased, is cached.
IsCacheable(key) == key \in CACHEABLE_GETINFO_PARAMS \/ IsGeoip(key)

\* control.py 617-626: the cache after the loop over response.entries. Where
\* two answered keys have the same cache key, the loop's order decides which
\* value stays: `pick` is the answered key written last for each cache key.
Cached(cache, entries, pick) ==
  LET keys == {StoreKey(k) : k \in DOMAIN entries}
      kept == {k \in keys : IsCacheable(k)}
  IN  Updated(cache, [c \in {CacheKey("getinfo", k) : k \in kept} |-> entries[pick[c[2]]]])

\* The orders the loop can take: for each lowercased key, one of the answered
\* keys that lowercase to it.
Picks(entries) ==
  LET keys == {StoreKey(k) : k \in DOMAIN entries}
  IN  {f \in [keys -> DOMAIN entries] : \A k \in keys : StoreKey(f[k]) = k}

\* control.py 626: a cached ip-to-country answer sets the failure count to -1.
CountAfterSuccess(count, entries) ==
  IF \E k \in DOMAIN entries :
       StoreKey(k) \notin CACHEABLE_GETINFO_PARAMS /\ IsGeoip(StoreKey(k))
    THEN -1 ELSE count

\* A get_info that counts no failure.
CountAfterFailureUncounted(count, params, caching) == count

\* control.py 640-643: a failed request for one ip-to-country key is counted
\* unless a lookup has succeeded before.
CountAfterFailure(count, params, caching) ==
  IF /\ Cardinality(params) = 1
     /\ \A p \in params : IsGeoip(p)
     /\ caching
     /\ count # -1
    THEN count + 1 ELSE count

\* reply.values()[0] of a single request, or the reply itself (631-634).
Reply(reply, is_multiple) ==
  IF is_multiple THEN reply ELSE reply[CHOOSE p \in DOMAIN reply : TRUE]

\* The ghost variable "fetched" after a get_info of one key returned value.
Fetched(params, is_multiple, value) ==
  IF is_multiple THEN fetched
  ELSE Updated(fetched, [k \in {Lower(p) : p \in params} |-> value])

\* The ghost variable "geoip_lookups" after a get_info failed whose request,
\* the keys not answered from the cache, was one ip-to-country key.
LookupFailed(rest) ==
  IF Cardinality(rest) = 1 /\ \A p \in rest : IsGeoip(p)
    THEN [geoip_lookups EXCEPT !.failed = @ + 1]
    ELSE geoip_lookups

\* The same after a get_info returned that had requested such a key.
LookupSucceeded(rest) ==
  IF \E p \in rest : IsGeoip(p)
    THEN [geoip_lookups EXCEPT !.succeeded = TRUE]
    ELSE geoip_lookups

\* Controller.get_info, control.py 558-648, answered from the cache alone:
\* lines 594-609.
GetInfoCached(params, is_multiple) ==
  LET reply == [p \in params |-> request_cache[CacheKey("getinfo", Lower(p))]]
      value == Reply(reply, is_multiple)
  IN  /\ last' = Answering(params, is_multiple, "return", value)
      /\ fetched' = Fetched(params, is_multiple, value)
      /\ UNCHANGED << request_cache, geoip_failure_count, wire, geoip_lookups >>

\* Lines 600-602: an ip-to-country key that is not cached, the geoip database
\* being taken for unavailable: ProtocolError, whatever the default.
GetInfoAbort(params, is_multiple, rest, default) ==
  /\ last' = Failing("get_info", params, is_multiple, "raise", ProtocolError(0, 0), default)
  /\ geoip_lookups' = LookupFailed(rest)
  /\ UNCHANGED << request_cache, geoip_failure_count, wire, fetched >>

\* Lines 611-633: the request is sent and the answer is complete.
GetInfoFetched(params, is_multiple, cached, entries, pick) ==
  LET reply == Updated([p \in cached |-> request_cache[CacheKey("getinfo", Lower(p))]],
                       entries)
      value == Reply(reply, is_multiple)
  IN  /\ wire' = wire + 1
      /\ geoip_lookups' = LookupSucceeded(params \ cached)
      /\ request_cache' = IF is_caching_enabled
                            THEN Cached(request_cache, entries, pick)
                            ELSE request_cache
      /\ geoip_failure_count' = IF is_caching_enabled
                                  THEN CountAfterSuccess(geoip_failure_count, entries)
                                  ELSE geoip_failure_count
      /\ last' = Answering(params, is_multiple, "return", value)
      /\ fetched' = Fetched(params, is_multiple, value)

\* Lines 634-648: msg() or the conversion raised a ControllerError.
GetInfoFailed(params, is_multiple, rest, default, sent) ==
  /\ wire' = IF sent THEN wire + 1 ELSE wire
  /\ geoip_lookups' = LookupFailed(rest)
  /\ geoip_failure_count' =
       CountAfterFailure(geoip_failure_count, rest, is_caching_enabled)
  /\ last' = IF default = UNDEFINED
               THEN Failing("get_info", params, is_multiple, "raise", ProtocolError(0, 0), default)
               ELSE Failing("get_info", params, is_multiple, "default", default, default)
  /\ UNCHANGED << request_cache, fetched >>

\* Controller.get_info, control.py 558-648.
GetInfo ==
  /\ nrequests < MaxRequests
  /\ nrequests' = nrequests + 1
  /\ \E params \in Requests, is_multiple \in BOOLEAN, default \in {UNDEFINED, "default"} :
       /\ ~is_multiple => Cardinality(params) = 1
       /\ LET cached == {p \in params :
                           CacheKey("getinfo", Lower(p)) \in DOMAIN request_cache}
              rest == params \ cached
          IN  IF \E p \in rest : IsGeoip(p) /\ is_geoip_unavailable
                THEN GetInfoAbort(params, is_multiple, rest, default)
              ELSE IF rest = {}
                THEN GetInfoCached(params, is_multiple)
              ELSE IF ~is_alive
                THEN GetInfoFailed(params, is_multiple, rest, default, FALSE)
              ELSE \E entries \in Answers(rest) :
                     IF Matches(entries, rest)
                       THEN \E pick \in Picks(entries) :
                              GetInfoFetched(params, is_multiple, cached, entries, pick)
                       ELSE GetInfoFailed(params, is_multiple, rest, default, TRUE)
  /\ UNCHANGED << sockv, lockv, queuev, localv, countv, histv,
                  is_caching_enabled, command, answer, tor_conf,
                  enabled_features, wirev >>

NextSession ==
  \/ GetInfo
  \/ ClearCache
  \/ ControllerConnect
  \/ ControllerConnectFail
  \/ ControllerClose

InitSession ==
  /\ InitTransport
  /\ \E enable_caching \in BOOLEAN : InitController(enable_caching)
  /\ InitCodec(NoFile, NotSent)

SpecSession == InitSession /\ [][NextSession]_vars


(***************************************************************************)
(* Configuration: Controller.get_conf, get_conf_map, set_conf, reset_conf  *)
(* and set_options, control.py 795-1066, and the GETCONF reply,            *)
(* response/getconf.py.                                                    *)
(***************************************************************************)
\* Configuration keys as the application spells them; " " is a string of
\* whitespace only.
ConfParams == {"exitpolicy", "HiddenServicePort", "hiddenserviceport", " "}

\* control.py 84-90
MAPPED_CONFIG_KEYS ==
  [k \in {"hiddenservicedir", "hiddenserviceport", "hiddenserviceversion",
          "hiddenserviceauthorizeclient", "hiddenserviceoptions"}
     |-> "HiddenServiceOptions"]

\* dict.values()
DictValues(d) == {d[k] : k \in DOMAIN d}

\* str.strip(), on the strings of the model.
Strip(s) == IF s = " " THEN "" ELSE s

\* Exceptions of stem.socket (560-607) that carry tor's status code, and
\* exceptions that are no ControllerError.
InvalidRequest(code, message) ==
  [kind |-> "InvalidRequest", code |-> code, message |-> message]
InvalidArguments(code, message, arguments) ==
  [kind |-> "InvalidArguments", code |-> code, message |-> message,
   arguments |-> arguments]
ValueError == [kind |-> "ValueError"]
IndexError == [kind |-> "IndexError"]

\* _case_insensitive_lookup(entries, key, default) for a list, control.py
\* 1314-1317: the first entry that matches, or the default.
ListLookup(entries, key, default) ==
  LET found == {i \in DOMAIN entries : Lower(entries[i]) = Lower(key)}
  IN  IF found = {} THEN default
      ELSE entries[CHOOSE i \in found : \A j \in found : i <= j]

\* The same for a dict, lines 1310-1313: the values of the keys that match
\* (the model's dicts hold one such key at most).
DictLookup(entries, key) ==
  {entries[k] : k \in {e \in DOMAIN entries : Lower(e) = Lower(key)}}

\* control.py 888: filter(lambda entry: entry.strip(), params).
NotBlank(entry) == Strip(entry) # ""

\* control.py 892: MAPPED_CONFIG_KEYS.get(entry, entry), with the entry as
\* the application spelled it.
LookupParam(entry) ==
  IF entry \in DOMAIN MAPPED_CONFIG_KEYS THEN MAPPED_CONFIG_KEYS[entry] ELSE entry

\* The keys tor answers "GETCONF key" with: the option in tor's spelling, or
\* for the group key the options of the group.
TorAnswersTo(key) ==
  IF key = "HiddenServiceOptions"
    THEN {"HiddenServicePort"}
    ELSE {t \in TorKeys : Lower(t) = Lower(key)}

\* Tor's answers to "GETCONF <keys>": "250 OK", or one or two lines
\* "key=value".
ConfLines(keys) ==
  LET line == (UNION {TorAnswersTo(k) : k \in keys}) \X Values
  IN  {<< >>} \cup {<< l >> : l \in line} \cup {<< l, m >> : l \in line, m \in line}

\* GetConfResponse._parse_message, getconf.py 39-52: each line's value is
\* appended to the list of its key.
RECURSIVE ConfEntries(_)
ConfEntries(lines) ==
  IF lines = << >> THEN Empty
  ELSE LET before == ConfEntries(SubSeq(lines, 1, Len(lines) - 1))
           key == lines[Len(lines)][1]
           value == lines[Len(lines)][2]
           list == IF key \in DOMAIN before THEN before[key] ELSE << >>
       IN  Updated(before, [k \in {key} |-> Append(list, value)])

\* control.py 930-936: the keys of the reply are mapped back to the spelling
\* of params. The test of line 931 compares a lowercased key with the
\* values of MAPPED_CONFIG_KEYS.
ExpectedKey(params, key) ==
  IF Lower(key) \notin DictValues(MAPPED_CONFIG_KEYS)
    THEN ListLookup(params, key, key)
    ELSE key

Renamed(reply, params) ==
  LET target == {ExpectedKey(params, k) : k \in DOMAIN reply}
  IN  [t \in target |->
         reply[CHOOSE k \in DOMAIN reply : ExpectedKey(params, k) = t]]

\* A get_conf_map that picks the last value of each entry.
Latest(reply) == [k \in DOMAIN reply |-> reply[k][Len(reply[k])]]

\* control.py 909 and 943: entry[1][0] for each entry of the reply.
First(reply) == [k \in DOMAIN reply |-> reply[k][1]]

\* control.py 916-918: the answered entries are cached under their
\* lowercased keys.
ConfCached(cache, entries) ==
  Updated(cache, [c \in {CacheKey("getconf", Lower(k)) : k \in DOMAIN entries}
                    |-> entries[CHOOSE k \in DOMAIN entries :
                                  CacheKey("getconf", Lower(k)) = c]])

\* How a get_conf_map call ends: what it returns or raises, the cache it
\* leaves, the keys of the GETCONF command it wrote, if it wrote, and the
\* entries of tor's answer.
ConfResult(outcome, value, cache, asked, entries) ==
  [outcome |-> outcome, value |-> value, cache |-> cache, asked |-> asked,
   entries |-> entries]

\* control.py 906-909 and 940-943: the reply as it is, or one value for each
\* key. The index of line 909 or 943 raises IndexError on an empty list.
ConfReturned(reply, multiple, cache, asked, entries) ==
  IF multiple
    THEN ConfResult("return", reply, cache, asked, entries)
  ELSE IF \E k \in DOMAIN reply : reply[k] = << >>
    THEN ConfResult("raise", IndexError, cache, asked, entries)
  ELSE ConfResult("return", First(reply), cache, asked, entries)

\* control.py 944-948: a ControllerError is raised, or the default returned.
ConfFailed(exc, default, asked) ==
  IF default # UNDEFINED
    THEN ConfResult("default", default, request_cache, asked, Empty)
    ELSE ConfResult("raise", exc, request_cache, asked, Empty)

\* control.py 912-943: tor's answer is parsed, cached and added to the cached
\* entries, and the keys are mapped back.
ConfFetched(params, multiple, reply, rest, lines) ==
  LET entries == ConfEntries(lines)
      cache == IF is_caching_enabled
                 THEN ConfCached(request_cache, entries)
                 ELSE request_cache
  IN  ConfReturned(Renamed(Updated(reply, entries), params), multiple, cache,
                   rest, entries)

\* Controller.get_conf_map, control.py 834-948: the ways a call can end.
\* msg() raises SocketClosed on a closed socket without writing; the
\* GETCONF conversion raises InvalidArguments or ProtocolError for an answer
\* that is not OK (getconf.py 27-37).
GetConfMapEnds(given, default, multiple) ==
  LET params == SelectSeq(given, NotBlank)
      lookup_params == {LookupParam(params[i]) : i \in DOMAIN params}
      cached == {p \in lookup_params :
                   CacheKey("getconf", Lower(p)) \in DOMAIN request_cache}
      rest == lookup_params \ cached
      reply == [p \in cached |-> request_cache[CacheKey("getconf", Lower(p))]]
  IN  IF params = << >>
        THEN {ConfResult("return", Empty, request_cache, {}, Empty)}
      ELSE IF rest = {}
        THEN {ConfReturned(reply, multiple, request_cache, {}, Empty)}
      ELSE IF ~is_alive
        THEN {ConfFailed(SocketClosed, default, {})}
      ELSE {ConfFailed(InvalidArguments("552", << >>, rest), default, rest),
            ConfFailed(ProtocolError(0, 0), default, rest)}
           \cup {ConfFetched(params, multiple, reply, rest, lines) :
                   lines \in ConfLines(rest)}

\* The state a configuration call leaves behind.
ConfEnds(op, params, multiple, default, end) ==
  /\ nrequests' = nrequests + 1
  /\ request_cache' = end.cache
  /\ wire' = IF end.asked = {} THEN wire ELSE wire + 1
  /\ command' = IF end.asked = {} THEN command ELSE Command("GETCONF", end.asked)
  /\ answer' = end.entries
  /\ last' = IF end.outcome = "return"
               THEN [Returning(op, params, "return", end.value)
                       EXCEPT !.multiple = multiple]
               ELSE Failing(op, params, multiple, end.outcome, end.value, default)
  /\ UNCHANGED << sockv, lockv, queuev, localv, countv, histv,
                  is_caching_enabled, geoip_failure_count, fetched,
                  geoip_lookups, tor_conf, enabled_features, wirev >>

\* What the application asks get_conf_map for: a key, or a list of keys.
ConfRequests ==
  {<< p >> : p \in ConfParams}
    \cup {pair \in (ConfParams \ {" "}) \X ConfParams : pair[1] # pair[2]}

\* Controller.get_conf_map, control.py 834-948.
GetConfMap ==
  /\ nrequests < MaxConfCalls
  /\ \E params \in ConfRequests, default \in {UNDEFINED, "default"}, multiple \in BOOLEAN :
       \E end \in GetConfMapEnds(params, default, multiple) :
         ConfEnds("get_conf_map", params, multiple, default, end)

\* control.py 832: _case_insensitive_lookup(entries, param, default) on what
\* get_conf_map returned: the value of the key, else the default, else a
\* ValueError (line 1320). A default that get_conf_map returned in place of
\* the entries holds no key.
GetConfEnds(param, default, end) ==
  IF end.outcome = "raise" THEN {end}
  ELSE LET found == IF end.outcome = "default" THEN {}
                    ELSE DictLookup(end.value, param)
       IN  IF found # {}
             THEN {[end EXCEPT !.value = v] : v \in found}
           ELSE IF default # UNDEFINED
             THEN {[end EXCEPT !.outcome = "default", !.value = default]}
           ELSE {[end EXCEPT !.outcome = "raise", !.value = ValueError]}

\* Controller.get_conf, control.py 795-832.
GetConf ==
  /\ nrequests < MaxConfCalls
  /\ \E given \in ConfParams, default \in {UNDEFINED, "default"}, multiple \in BOOLEAN :
       LET param == Strip(Lower(given))
       IN  IF param = ""
             THEN ConfEnds("get_conf", << given >>, multiple, default,
                           ConfResult(IF default # UNDEFINED THEN "default" ELSE "return",
                                      IF default # UNDEFINED THEN default ELSE Nothing,
                                      request_cache, {}, Empty))
           ELSE \E map \in GetConfMapEnds(<< param >>, default, multiple) :
                  \E end \in GetConfEnds(param, default, map) :
                    ConfEnds("get_conf", << given >>, multiple, default, end)

\* What set_options is given: one (param, value) pair, or two in order. A
\* value is None, a string or a list of strings.
None == [type |-> "NoneType", items |-> << >>]
Str(s) == [type |-> "str", items |-> << s >>]
List(l) == [type |-> "list", items |-> l]
SetParams == {"ExitPolicy", "hiddenserviceport"}
SetValues == {None, Str("a"), List(<< "a", "b" >>), List(<< >>)}
SetRequests ==
  {<< pair >> : pair \in SetParams \X SetValues}
    \cup {<< p, q >> : p \in SetParams \X {Str("a")},
                      q \in SetParams \X {None, List(<< "a", "b" >>)}}

\* value is None, and isinstance(value, str).
IsNone(value) == value.type = "NoneType"
IsStr(value) == value.type = "str"

\* "Unrecognized option: Unknown option '", the 37 characters that
\* control.py 1059-1060 look for, and the texts of tor's other messages.
UnknownOption ==
  << "U", "n", "r", "e", "c", "o", "g", "n", "i", "z", "e", "d", " ",
     "o", "p", "t", "i", "o", "n", ":", " ",
     "U", "n", "k", "n", "o", "w", "n", " ",
     "o", "p", "t", "i", "o", "n", " ", "'" >>
OK == << "O", "K" >>
Refused == << "n", "o" >>

\* A reply of one line, as stem.response.convert("SINGLELINE", response)
\* leaves it: code, message and is_ok().
Line(code, message) == [code |-> code, message |-> message]
is_ok(response) == response.code = "250"

\* str.startswith(prefix)
StartsWith(message, prefix) ==
  Len(message) >= Len(prefix) /\ SubSeq(message, 1, Len(prefix)) = prefix

\* str.find(c, start): the index, counted from 0, of the first c at or after
\* start, or -1.
Find(message, c, start) ==
  LET at == {i \in start..(Len(message) - 1) : message[i + 1] = c}
  IN  IF at = {} THEN -1 ELSE CHOOSE i \in at : \A j \in at : i <= j

\* message[start:end], an end below 0 counting from the end of the string.
Slice(message, start, end) ==
  SubSeq(message, start + 1, IF end < 0 THEN Len(message) + end ELSE end)

\* control.py 1060: response.message[37:response.message.find("\'", 37)].
OptionNamed(message) == Slice(message, 37, Find(message, "'", 37))

\* A set_options that takes no code for that of an invalid request.
IsRequestCodeNever(code) == FALSE

\* control.py 1063: response.code in ("513", "553").
IsRequestCode(code) == code \in {"513", "553"}

\* control.py 1055-1066: the exception raised for a reply that is not OK.
OptionsError(response) ==
  IF response.code = "552"
    THEN IF StartsWith(response.message, UnknownOption)
           THEN InvalidArguments(response.code, response.message,
                                 << OptionNamed(response.message) >>)
           ELSE InvalidRequest(response.code, response.message)
  ELSE IF IsRequestCode(response.code)
    THEN InvalidRequest(response.code, response.message)
  ELSE ProtocolError(0, 0)

\* A set_options that caches under the param as it was given.
OptionKeyAsGiven(param) == CacheKey("getconf", param)

\* control.py 1046: cache_key = "getconf.%s" % param.lower().
OptionKey(param) == CacheKey("getconf", Lower(param))

\* control.py 1044-1054, for one (param, value) pair.
OptionCached(cache, param, value) ==
  IF IsNone(value)
    THEN [c \in DOMAIN cache \ {OptionKey(param)} |-> cache[c]]
  ELSE IF IsStr(value)
    THEN Updated(cache, [c \in {OptionKey(param)} |-> << value.items[1] >>])
  ELSE Updated(cache, [c \in {OptionKey(param)} |-> value.items])

\* The loop of lines 1044-1054 over the pairs, in their order.
RECURSIVE OptionsCached(_, _)
OptionsCached(cache, params) ==
  IF params = << >> THEN cache
  ELSE OptionsCached(OptionCached(cache, params[1][1], params[1][2]), Tail(params))

\* A set_options that writes the cache whatever tor replied.
CacheAfterAnyReply(cache, params, response) ==
  IF is_caching_enabled THEN OptionsCached(cache, params) ELSE cache

\* control.py 1040-1054: the cache is written "if response.is_ok()" and "if
\* self.is_caching_enabled()", and on no other path.
CacheAfterReply(cache, params, response) ==
  IF is_ok(response) /\ is_caching_enabled
    THEN OptionsCached(cache, params)
    ELSE cache

\* Controller.set_options, control.py 987-1066, called as op: msg() raises
\* SocketClosed on a closed socket; else the command is written and tor's
\* reply, one line, decides.
SetOptionsCalled(op, params, reset, response) ==
  /\ nrequests' = nrequests + 1
  /\ IF ~is_alive
       THEN /\ last' = Returning(op, params, "raise", SocketClosed)
            /\ answer' = Empty
            /\ UNCHANGED << request_cache, wire, command >>
       ELSE /\ wire' = wire + 1
            /\ answer' = response
            /\ command' = Command(IF reset THEN "RESETCONF" ELSE "SETCONF", params)
            /\ request_cache' = CacheAfterReply(request_cache, params, response)
            /\ last' = IF is_ok(response)
                         THEN Returning(op, params, "return", Nothing)
                         ELSE Returning(op, params, "raise", OptionsError(response))
  /\ UNCHANGED << sockv, lockv, queuev, localv, countv, histv,
                  is_caching_enabled, geoip_failure_count, fetched,
                  geoip_lookups, enabled_features, wirev >>

\* The same where tor's configuration is not followed.
SetOptionsEnds(op, params, reset, response) ==
  /\ SetOptionsCalled(op, params, reset, response)
  /\ tor_conf' = tor_conf

\* Tor's replies to the configuration calls: done, or refused.
ConfReplies == {Line("250", OK), Line("513", Refused)}

\* Controller.set_options, control.py 987-1066.
SetOptions ==
  /\ nrequests < MaxConfCalls
  /\ \E params \in SetRequests, reset \in BOOLEAN, response \in ConfReplies :
       SetOptionsEnds("set_options", params, reset, response)

\* Controller.set_conf, control.py 950-970: set_options({param: value}, False).
SetConf ==
  /\ nrequests < MaxConfCalls
  /\ \E param \in SetParams, value \in SetValues, response \in ConfReplies :
       SetOptionsEnds("set_conf", << << param, value >> >>, FALSE, response)

\* Controller.reset_conf, control.py 972-985:
\* set_options(dict([(entry, None) for entry in params]), True).
ResetConf ==
  /\ nrequests < MaxConfCalls
  /\ \E param \in SetParams, response \in ConfReplies :
       SetOptionsEnds("reset_conf", << << param, None >> >>, TRUE, response)

\* close() and clear_cache() among the configuration calls.
ConfClose == nrequests < MaxConfCalls /\ ControllerClose
ConfClearCache == nrequests < MaxConfCalls /\ ClearCache

NextConf ==
  \/ GetConfMap
  \/ GetConf
  \/ SetOptions
  \/ SetConf
  \/ ResetConf
  \/ ConfClose
  \/ ConfClearCache

SpecConf == InitSession /\ [][NextConf]_vars

(***************************************************************************)
(* set_options and the replies tor may give it, control.py 1024-1066.      *)
(***************************************************************************)
\* Status codes and messages of tor's replies to SETCONF and RESETCONF: the
\* unknown option is named x or xy, the closing quote may be followed by
\* more text or be missing.
OptionsCodes == {"250", "552", "513", "553", "451"}
OptionsMessages ==
  { OK, Refused,
    UnknownOption \o << "x", "'" >>,
    UnknownOption \o << "x", "y", "'", " ", "'", "z" >>,
    UnknownOption \o << "x" >>,
    UnknownOption }
OptionsReplies == {Line(code, message) : code \in OptionsCodes, message \in OptionsMessages}

\* What set_options is given where its replies are looked at.
OptionsRequests ==
  {<< << "ExitPolicy", value >> >> : value \in {None, Str("a")}}

\* Controller.set_options, control.py 987-1066, with any reply of tor.
SetOptionsReplied ==
  /\ nrequests < MaxConfCalls
  /\ \E params \in OptionsRequests, reset \in BOOLEAN, response \in OptionsReplies :
       SetOptionsEnds("set_options", params, reset, response)

NextOptions ==
  \/ SetOptionsReplied
  \/ ConfClose

SpecOptions == InitSession /\ [][NextOptions]_vars


(***************************************************************************)
(* The calls that write the request cache, taken together.                *)
(***************************************************************************)

\* stem.version.Version(version_str): the object get_version returns and
\* keeps, made of the string tor answered.
Version(version_str) == [type |-> "Version", version_str |-> version_str]

\* control.py 667, 669: the key get_version keeps its answer under, the plain
\* string "version" with no namespace before it.
VersionKey == << "version" >>

\* The get_info("version") that get_version makes, control.py 594-648 for
\* one key and no default, and what get_version does with its result
\* (664-669): kept under VersionKey when caching is on.
GetVersionFetches(entries) ==
  LET params == {"version"}
      key == CacheKey("getinfo", "version")
  IN  IF key \in DOMAIN request_cache
        THEN LET version == Version(request_cache[key])
             IN  /\ request_cache' = IF is_caching_enabled
                                       THEN Updated(request_cache, [c \in {VersionKey} |-> version])
                                       ELSE request_cache
                 /\ fetched' = Fetched(params, FALSE, request_cache[key])
                 /\ last' = Returning("get_version", params, "return", version)
                 /\ UNCHANGED << wire, geoip_failure_count >>
      ELSE IF ~is_alive \/ ~Matches(entries, params)
        THEN /\ wire' = IF is_alive THEN wire + 1 ELSE wire
             /\ geoip_failure_count' =
                  CountAfterFailure(geoip_failure_count, params, is_caching_enabled)
             /\ last' = Returning("get_version", params, "raise", ProtocolError(0, 0))
             /\ UNCHANGED << request_cache, fetched >>
      ELSE LET version == Version(entries["version"])
               pick == [k \in params |-> k]
               cache == Cached(request_cache, entries, pick)
           IN  /\ wire' = wire + 1
               /\ request_cache' = IF is_caching_enabled
                                     THEN Updated(cache, [c \in {VersionKey} |-> version])
                                     ELSE request_cache
               /\ geoip_failure_count' =
                    IF is_caching_enabled
                      THEN CountAfterSuccess(geoip_failure_count, entries)
                      ELSE geoip_failure_count
               /\ fetched' = Fetched(params, FALSE, entries["version"])
               /\ last' = Returning("get_version", params, "return", version)

\* Controller.get_version, control.py 650-669, called by the application or
\* by is_feature_enabled.
GetVersionCalled ==
  /\ nrequests' = nrequests + 1
  /\ IF is_caching_enabled /\ VersionKey \in DOMAIN request_cache
       THEN /\ last' = Returning("get_version", {}, "return", request_cache[VersionKey])
            /\ UNCHANGED << request_cache, wire, geoip_failure_count, fetched >>
       ELSE \E entries \in Answers({"version"}) : GetVersionFetches(entries)
  /\ UNCHANGED << sockv, lockv, queuev, localv, countv, histv,
                  is_caching_enabled, geoip_lookups, command, answer,
                  tor_conf, wirev >>

\* Controller.get_version, control.py 650-669.
GetVersion ==
  /\ nrequests < MaxConfCalls
  /\ GetVersionCalled
  /\ enabled_features' = enabled_features

\* get_info() and connect() among the calls that write the cache.
CacheGetInfo == nrequests < MaxConfCalls /\ GetInfo
CacheConnect == nrequests < MaxConfCalls /\ ControllerConnect

NextCache ==
  \/ CacheGetInfo
  \/ GetVersion
  \/ SetOptions
  \/ ConfClose
  \/ ConfClearCache
  \/ CacheConnect

SpecCache == InitSession /\ [][NextCache]_vars


(***************************************************************************)
(* get_info and get_conf_map called by one thread while another thread    *)
(* calls connect(): the calls take no lock of their own, so each is a     *)
(* sequence of steps between which the other thread may run.              *)
(***************************************************************************)

\* A value of tor's answer, with the connection it was read on.
ReadOn(value, connection) == [value |-> value, read_on |-> connection]

\* The entries of tor's answer to "GETINFO <params>" on a connection.
InfoAnswers(params, connection) ==
  {[k \in DOMAIN entries |-> ReadOn(entries[k], connection)] :
     entries \in Answers(params)}

\* The entries of tor's answer to "GETCONF <params>" on a connection.
ConfAnswers(params, connection) ==
  {LET entries == ConfEntries(lines)
   IN  [k \in DOMAIN entries |->
          [i \in DOMAIN entries[k] |-> ReadOn(entries[k][i], connection)]] :
     lines \in ConfLines(params)}

\* The keys a get_conf_map call looks up: one option, or the group of the
\* hidden service options (control.py 892).
ConfLookups == {{LookupParam(p)} : p \in ConfParams \ {" "}}

\* The namespace of the cache keys of a command.
Namespace(verb) == IF verb = "GETINFO" THEN "getinfo" ELSE "getconf"

\* The call that sends a command.
Caller(verb) == IF verb = "GETINFO" THEN "get_info" ELSE "get_conf_map"

\* control.py 594-609 and 895-909: the cache is looked up; a call that finds
\* every key returns, a get_info that finds the geoip database unavailable
\* raises, and any other call goes on to msg() with the keys not found.
FetchCall(t) ==
  /\ pc[t] = "idle"
  /\ nrequests < MaxConfCalls
  /\ nrequests' = nrequests + 1
  /\ \E verb \in {"GETINFO", "GETCONF"} :
       \E params \in IF verb = "GETINFO" THEN Requests ELSE ConfLookups :
         LET rest == {p \in params :
                        CacheKey(Namespace(verb), Lower(p)) \notin DOMAIN request_cache}
             reply == [p \in params \ rest |->
                         request_cache[CacheKey(Namespace(verb), Lower(p))]]
         IN  IF verb = "GETINFO" /\ \E p \in rest : IsGeoip(p) /\ is_geoip_unavailable
               THEN /\ last' = Returning(Caller(verb), params, "raise", ProtocolError(0, 0))
                    /\ UNCHANGED << command, pc >>
             ELSE IF rest = {}
               THEN /\ last' = Returning(Caller(verb), params, "return", reply)
                    /\ UNCHANGED << command, pc >>
             ELSE /\ command' = Command(verb, rest)
                  /\ pc' = [pc EXCEPT ![t] = "f_msg"]
                  /\ last' = last
  /\ UNCHANGED << sockv, lockv, queuev, ret, is_change, wrote, after_close,
                  event_message, notifying, countv, histv,
                  is_caching_enabled, request_cache, geoip_failure_count,
                  wire, fetched, geoip_lookups, answer, tor_conf,
                  enabled_features, wirev >>

\* control.py 612-614 and 912-914: msg() and the conversion of its answer.
\* msg() raises SocketClosed on a closed socket; an answer that lacks a key
\* asked for fails assert_matches. The except branches: 634-648, 944-948.
FetchMsg(t) ==
  /\ pc[t] = "f_msg"
  /\ \E entries \in IF command.verb = "GETINFO"
                      THEN InfoAnswers(command.arguments, nconnects)
                      ELSE ConfAnswers(command.arguments, nconnects) :
       IF is_alive /\ (command.verb = "GETINFO" => Matches(entries, command.arguments))
         THEN /\ wire' = wire + 1
              /\ answer' = entries
              /\ pc' = [pc EXCEPT ![t] = "f_store"]
              /\ UNCHANGED << geoip_failure_count, last >>
         ELSE /\ wire' = IF is_alive THEN wire + 1 ELSE wire
              /\ geoip_failure_count' =
                   IF command.verb = "GETINFO"
                     THEN CountAfterFailure(geoip_failure_count, command.arguments,
                                            is_caching_enabled)
                     ELSE geoip_failure_count
              /\ last' = Returning(Caller(command.verb), command.arguments, "raise",
                                   IF is_alive THEN ProtocolError(0, 0) ELSE SocketClosed)
              /\ pc' = [pc EXCEPT ![t] = "idle"]
              /\ answer' = answer
  /\ UNCHANGED << sockv, lockv, queuev, ret, is_change, wrote, after_close,
                  event_message, notifying, countv, histv,
                  is_caching_enabled, request_cache, nrequests, fetched,
                  geoip_lookups, command, tor_conf, enabled_features, wirev >>

\* control.py 617-626 and 916-918: the entries of the answer are written to
\* the cache, and the call returns.
FetchStore(t) ==
  /\ pc[t] = "f_store"
  /\ \E pick \in Picks(answer) :
       request_cache' =
         IF ~is_caching_enabled THEN request_cache
         ELSE IF command.verb = "GETINFO" THEN Cached(request_cache, answer, pick)
         ELSE ConfCached(request_cache, answer)
  /\ geoip_failure_count' =
       IF is_caching_enabled /\ command.verb = "GETINFO"
         THEN CountAfterSuccess(geoip_failure_count, answer)
         ELSE geoip_failure_count
  /\ last' = Returning(Caller(command.verb), command.arguments, "return", answer)
  /\ pc' = [pc EXCEPT ![t] = "idle"]
  /\ UNCHANGED << sockv, lockv, queuev, ret, is_change, wrote, after_close,
                  event_message, notifying, countv, histv,
                  is_caching_enabled, nrequests, wire, fetched,
                  geoip_lookups, command, answer, tor_conf,
                  enabled_features, wirev >>

\* Controller.connect, control.py 515: super(Controller, self).connect(). A
\* new socket is made, or _make_socket raises and the socket stays closed.
ReconnectSocket(t) ==
  /\ pc[t] = "idle"
  /\ nrequests < MaxConfCalls
  /\ nrequests' = nrequests + 1
  /\ sock_open' = TRUE
  /\ peer_open' = TRUE
  /\ is_alive' = TRUE
  /\ nconnects' = nconnects + 1
  /\ pc' = [pc EXCEPT ![t] = "k_clear"]
  /\ UNCHANGED << pending, lockv, queuev, ret, is_change, wrote,
                  after_close, event_message, notifying, ncalls, nunasked,
                  nevents, nnotifies, histv, is_caching_enabled,
                  request_cache, geoip_failure_count, wire, fetched,
                  geoip_lookups, command, answer, tor_conf,
                  enabled_features, last, wirev >>

ReconnectFail(t) ==
  /\ pc[t] = "idle"
  /\ nrequests < MaxConfCalls
  /\ nrequests' = nrequests + 1
  /\ sock_open' = FALSE
  /\ is_alive' = FALSE
  /\ last' = Returning("connect", {}, "raise", SocketError)
  /\ UNCHANGED << peer_open, pending, lockv, queuev, localv, countv, histv,
                  is_caching_enabled, request_cache, geoip_failure_count,
                  wire, fetched, geoip_lookups, command, answer, tor_conf,
                  enabled_features, wirev >>

\* Controller.connect, control.py 516: self.clear_cache(), and connect()
\* returns.
ReconnectClear(t) ==
  /\ pc[t] = "k_clear"
  /\ request_cache' = Cleared(request_cache)
  /\ geoip_failure_count' = 0
  /\ last' = Returning("connect", {}, "return", Nothing)
  /\ pc' = [pc EXCEPT ![t] = "idle"]
  /\ UNCHANGED << sockv, lockv, queuev, ret, is_change, wrote, after_close,
                  event_message, notifying, countv, histv,
                  is_caching_enabled, nrequests, wire, fetched,
                  geoip_lookups, command, answer, tor_conf,
                  enabled_features, wirev >>

NextReconnect ==
  \/ \E t \in {CALLER} : FetchCall(t)
  \/ \E t \in {CALLER} : FetchMsg(t)
  \/ \E t \in {CALLER} : FetchStore(t)
  \/ \E t \in {CONTROL} : ReconnectSocket(t)
  \/ \E t \in {CONTROL} : ReconnectFail(t)
  \/ \E t \in {CONTROL} : ReconnectClear(t)

SpecReconnect == InitSession /\ [][NextReconnect]_vars


(***************************************************************************)
(* get_info('ip-to-country/...') called by two threads at once.           *)
(***************************************************************************)

\* The address looked up.
GeoipParams == {"ip-to-country/1.2.3.4"}

\* control.py 594-609: the cache is looked up. A call that finds the key
\* returns; one that finds the geoip database unavailable raises (600-602);
\* any other goes on to msg().
LookupCall(t) ==
  /\ pc[t] = "idle"
  /\ nrequests < MaxRequests
  /\ nrequests' = nrequests + 1
  /\ IF \A p \in GeoipParams : CacheKey("getinfo", Lower(p)) \in DOMAIN request_cache
       THEN /\ last' = Answering(GeoipParams, FALSE, "return",
                                 Reply([p \in GeoipParams |->
                                          request_cache[CacheKey("getinfo", Lower(p))]],
                                       FALSE))
            /\ pc' = pc
     ELSE IF is_geoip_unavailable
       THEN /\ last' = Answering(GeoipParams, FALSE, "raise", ProtocolError(0, 0))
            /\ pc' = pc
     ELSE /\ pc' = [pc EXCEPT ![t] = "g_msg"]
          /\ last' = last
  /\ UNCHANGED << sockv, lockv, queuev, ret, is_change, wrote, after_close,
                  event_message, notifying, countv, histv,
                  is_caching_enabled, request_cache, geoip_failure_count,
                  wire, fetched, geoip_lookups, command, answer, tor_conf,
                  enabled_features, wirev >>

\* control.py 611-633: msg() and the conversion of its answer. A complete
\* answer is cached and returned; a closed socket or an answer without the
\* key raises a ControllerError, which line 634 catches.
LookupMsg(t) ==
  /\ pc[t] = "g_msg"
  /\ \E entries \in Answers(GeoipParams) :
       IF is_alive /\ Matches(entries, GeoipParams)
         THEN /\ wire' = wire + 1
              /\ request_cache' = IF is_caching_enabled
                                    THEN Cached(request_cache, entries,
                                                [p \in GeoipParams |-> p])
                                    ELSE request_cache
              /\ geoip_failure_count' =
                   IF is_caching_enabled
                     THEN CountAfterSuccess(geoip_failure_count, entries)
                     ELSE geoip_failure_count
              /\ last' = Answering(GeoipParams, FALSE, "return", Reply(entries, FALSE))
              /\ pc' = [pc EXCEPT ![t] = "idle"]
         ELSE /\ wire' = IF is_alive THEN wire + 1 ELSE wire
              /\ pc' = [pc EXCEPT ![t] = "g_except"]
              /\ UNCHANGED << request_cache, geoip_failure_count, last >>
  /\ UNCHANGED << sockv, lockv, queuev, ret, is_change, wrote, after_close,
                  event_message, notifying, countv, histv,
                  is_caching_enabled, nrequests, fetched, geoip_lookups,
                  command, answer, tor_conf, enabled_features, wirev >>

\* control.py 634-648: the failure is counted and the exception raised.
LookupExcept(t) ==
  /\ pc[t] = "g_except"
  /\ geoip_failure_count' =
       CountAfterFailure(geoip_failure_count, GeoipParams, is_caching_enabled)
  /\ last' = Answering(GeoipParams, FALSE, "raise", ProtocolError(0, 0))
  /\ pc' = [pc EXCEPT ![t] = "idle"]
  /\ UNCHANGED << sockv, lockv, queuev, ret, is_change, wrote, after_close,
                  event_message, notifying, countv, histv,
                  is_caching_enabled, request_cache, nrequests, wire,
                  fetched, geoip_lookups, command, answer, tor_conf,
                  enabled_features, wirev >>

\* Controller.close() between the lookups.
LookupClose ==
  /\ nrequests < MaxRequests
  /\ \A t \in Apps : pc[t] = "idle"
  /\ ControllerClose

NextLookups ==
  \/ \E t \in Apps : LookupCall(t)
  \/ \E t \in Apps : LookupMsg(t)
  \/ \E t \in Apps : LookupExcept(t)
  \/ LookupClose

SpecLookups == InitSession /\ [][NextLookups]_vars


(***************************************************************************)
(* The configuration calls against a tor that keeps its configuration:    *)
(* what tor holds changes by SETCONF, RESETCONF and LOADCONF only, and    *)
(* GETCONF answers with it.                                               *)
(***************************************************************************)

\* Tor's name for an option, which it accepts in any letter case.
TorKey(param) == CHOOSE k \in TorKeys : Lower(k) = Lower(param)

\* "key=value", one line for each value tor holds for the key.
TorLinesOf(key) == [i \in DOMAIN tor_conf[key] |-> << key, tor_conf[key][i] >>]

\* Tor's answer to "GETCONF <keys>": the lines of every option asked for.
RECURSIVE TorLines(_)
TorLines(keys) ==
  IF keys = {} THEN << >>
  ELSE LET key == CHOOSE k \in keys : TRUE
       IN  TorLinesOf(key) \o TorLines(keys \ {key})

\* Tor's configuration after "SETCONF" or "RESETCONF" with the words that
\* control.py 1029-1035 make of one (param, value) pair: "param" alone, for
\* None and for an empty list, puts the option back to its default.
TorSet(conf, param, value) ==
  [conf EXCEPT ![TorKey(param)] =
     IF IsNone(value) \/ value.items = << >>
       THEN TorDefaults[TorKey(param)]
       ELSE value.items]

RECURSIVE TorApplied(_, _)
TorApplied(conf, params) ==
  IF params = << >> THEN conf
  ELSE TorApplied(TorSet(conf, params[1][1], params[1][2]), Tail(params))

\* Tor's configuration after "LOADCONF" of a text: the options of the text
\* as the text has them, every other option at its default.
TorLoaded(text) ==
  [k \in TorKeys |-> IF k \in DOMAIN text THEN text[k] ELSE TorDefaults[k]]

\* The configuration texts load_conf is given.
ConfTexts == UNION {[keys -> {<< "a" >>, << "a", "b" >>}] : keys \in SUBSET TorKeys}

\* What set_options is given here: pairs that name different options.
TorSetRequests ==
  {params \in SetRequests :
     Len(params) = 2 => TorKey(params[1][1]) # TorKey(params[2][1])}

\* Controller.get_conf_map, control.py 834-948, answered by tor with what it
\* holds.
TorGetConfMap ==
  /\ nrequests < MaxConfCalls
  /\ \E given \in ConfRequests, multiple \in BOOLEAN :
       LET params == SelectSeq(given, NotBlank)
           lookup_params == {LookupParam(params[i]) : i \in DOMAIN params}
           cached == {p \in lookup_params :
                        CacheKey("getconf", Lower(p)) \in DOMAIN request_cache}
           rest == lookup_params \ cached
           reply == [p \in cached |-> request_cache[CacheKey("getconf", Lower(p))]]
           asked == UNION {TorAnswersTo(k) : k \in rest}
       IN  \E end \in IF params = << >> \/ rest = {} \/ ~is_alive
                        THEN GetConfMapEnds(given, UNDEFINED, multiple)
                        ELSE {ConfFetched(params, multiple, reply, rest, TorLines(asked))} :
             ConfEnds("get_conf_map", given, multiple, UNDEFINED, end)

\* Controller.set_options, control.py 987-1066: tor does what it answers
\* 250 OK to.
TorSetOptions ==
  /\ nrequests < MaxConfCalls
  /\ \E params \in TorSetRequests, reset \in BOOLEAN, response \in ConfReplies :
       /\ SetOptionsCalled("set_options", params, reset, response)
       /\ tor_conf' = IF is_alive /\ is_ok(response)
                        THEN TorApplied(tor_conf, params)
                        ELSE tor_conf

\* Controller.load_conf, control.py 1068-1086: the text is sent and tor's
\* reply, one line, decides between returning and raising. The request cache
\* is not looked at.
LoadConf ==
  /\ nrequests < MaxConfCalls
  /\ nrequests' = nrequests + 1
  /\ \E configtext \in ConfTexts, response \in ConfReplies \cup {Line("553", Refused)} :
       IF ~is_alive
         THEN /\ last' = Returning("load_conf", {}, "raise", SocketClosed)
              /\ UNCHANGED << wire, command, answer, tor_conf >>
         ELSE /\ wire' = wire + 1
              /\ command' = Command("LOADCONF", configtext)
              /\ answer' = response
              /\ tor_conf' = IF is_ok(response) THEN TorLoaded(configtext) ELSE tor_conf
              /\ last' = IF response.code \in {"552", "553"}
                           THEN Returning("load_conf", {}, "raise",
                                          InvalidRequest(response.code, response.message))
                         ELSE IF ~is_ok(response)
                           THEN Returning("load_conf", {}, "raise", ProtocolError(0, 0))
                         ELSE Returning("load_conf", {}, "return", Nothing)
  /\ UNCHANGED << sockv, lockv, queuev, localv, countv, histv,
                  is_caching_enabled, request_cache, geoip_failure_count,
                  fetched, geoip_lookups, enabled_features, wirev >>

NextTor ==
  \/ TorGetConfMap
  \/ TorSetOptions
  \/ LoadConf
  \/ ConfClose
  \/ CacheConnect

SpecTor == InitSession /\ [][NextTor]_vars


(***************************************************************************)
(* The features of the connection: enable_feature and is_feature_enabled, *)
(* control.py 1108-1168.                                                  *)
(***************************************************************************)

\* str.upper(), on the strings of the model.
Upper(s) ==
  CASE s = "verbose_names" -> "VERBOSE_NAMES"
    [] s = "Verbose_Names" -> "VERBOSE_NAMES"
    [] s = "extended_events" -> "EXTENDED_EVENTS"
    [] OTHER -> s

\* What enable_feature is given: a list of names (a single name is made a
\* list of one, line 1154).
FeatureRequests ==
  { << "verbose_names" >>, << "EXTENDED_EVENTS" >>, << "x" >>,
    << "extended_events", "verbose_names" >> }

\* 'Unrecognized feature "', the 22 characters that control.py 1161-1162
\* look for.
UnrecognizedFeature ==
  << "U", "n", "r", "e", "c", "o", "g", "n", "i", "z", "e", "d", " ",
     "f", "e", "a", "t", "u", "r", "e", " ", "\"" >>

\* Tor's replies to USEFEATURE.
FeatureReplies ==
  { Line("250", OK), Line("552", UnrecognizedFeature \o << "x", "\"" >>),
    Line("552", Refused), Line("451", Refused) }

\* control.py 1162: response.message[22:response.message.find("\"", 22)].
FeatureNamed(message) == Slice(message, 22, Find(message, "\"", 22))

\* control.py 1158-1166: the exception for a reply that is not OK.
FeatureError(response) ==
  IF response.code = "552"
    THEN InvalidArguments(response.code, response.message,
                          IF StartsWith(response.message, UnrecognizedFeature)
                            THEN << FeatureNamed(response.message) >>
                            ELSE << >>)
    ELSE ProtocolError(0, 0)

\* An enable_feature that keeps the names of its last call only.
EnabledAnew(enabled, features) ==
  [i \in DOMAIN features |-> Upper(features[i])]

\* control.py 1168: self.enabled_features += [entry.upper() for entry in
\* features].
Enabled(enabled, features) ==
  enabled \o [i \in DOMAIN features |-> Upper(features[i])]

\* control.py 1118-1121 and 1134: what is_feature_enabled returns, "feature
\* in self.enabled_features" for the name in upper case.
is_feature_enabled(feature) ==
  Upper(feature) \in {enabled_features[i] : i \in DOMAIN enabled_features}

\* Controller.enable_feature, control.py 1136-1168.
EnableFeature ==
  /\ nrequests < MaxFeatureCalls
  /\ nrequests' = nrequests + 1
  /\ \E features \in FeatureRequests, response \in FeatureReplies :
       IF ~is_alive
         THEN /\ last' = Returning("enable_feature", features, "raise", SocketClosed)
              /\ UNCHANGED << wire, command, answer, enabled_features >>
         ELSE /\ wire' = wire + 1
              /\ command' = Command("USEFEATURE", features)
              /\ answer' = response
              /\ IF is_ok(response)
                   THEN /\ enabled_features' = Enabled(enabled_features, features)
                        /\ last' = Returning("enable_feature", features, "return", Nothing)
                   ELSE /\ enabled_features' = enabled_features
                        /\ last' = Returning("enable_feature", features, "raise",
                                             FeatureError(response))
  /\ UNCHANGED << sockv, lockv, queuev, localv, countv, histv,
                  is_caching_enabled, request_cache, geoip_failure_count,
                  fetched, geoip_lookups, tor_conf, wirev >>

\* The features that a tor of a known version has without being asked
\* (control.py 1126-1129), and the names is_feature_enabled is called with.
Defaulted == {"EXTENDED_EVENTS", "VERBOSE_NAMES"}
FeatureNames == {"Verbose_Names", "extended_events", "x"}

\* Controller.is_feature_enabled, control.py 1108-1134. A feature of the list
\* is enabled. For one of the two that newer tors have by default
\* get_version() is called, which may raise, and the feature is appended if
\* the version meets the requirement (stem.version, which decides either
\* way).
IsFeatureEnabled ==
  /\ nrequests < MaxFeatureCalls
  /\ \E feature \in FeatureNames, meets_requirements \in BOOLEAN :
       IF is_feature_enabled(feature) \/ Upper(feature) \notin Defaulted
         THEN /\ nrequests' = nrequests + 1
              /\ last' = Returning("is_feature_enabled", {feature}, "return", Nothing)
              /\ UNCHANGED << request_cache, wire, geoip_failure_count, fetched,
                              enabled_features >>
         ELSE /\ GetVersionCalled
              /\ enabled_features' =
                   IF last'.outcome = "return" /\ meets_requirements
                     THEN Append(enabled_features, Upper(feature))
                     ELSE enabled_features
  /\ UNCHANGED << sockv, lockv, queuev, localv, countv, histv,
                  is_caching_enabled, geoip_lookups, command, answer,
                  tor_conf, wirev >>

\* close(), connect() and clear_cache() among the calls about features.
FeatureClose == nrequests < MaxFeatureCalls /\ ControllerClose
FeatureConnect == nrequests < MaxFeatureCalls /\ ControllerConnect
FeatureClearCache == nrequests < MaxFeatureCalls /\ ClearCache

NextFeatures ==
  \/ EnableFeature
  \/ IsFeatureEnabled
  \/ FeatureClose
  \/ FeatureConnect
  \/ FeatureClearCache

SpecFeatures == InitSession /\ [][NextFeatures]_vars
InitWire ==
  /\ InitTransport
  /\ InitController(TRUE)
  /\ \/ \E file \in Arrivals(MaxLines) : InitCodec(file, NotSent)
     \/ \E message \in Messages :
          InitCodec([lines |-> Readlines(Framed(message)), more |-> 0,
                     end |-> "eof"],
                    Sent(message))

NextWire ==
  \/ RecvLine
  \/ RecvData

SpecWire == InitWire /\ [][NextWire]_vars

SpecSubclass == Init /\ [][NextSubclass]_vars

\* The threads with scheduling: a thread that can take its next step again
\* and again takes it in the end, so that one waiting for a lock gets it if
\* the lock keeps being left. Nothing obliges the application to begin a
\* call or the peer to send or to close.
FairWorkers ==
  /\ Init
  /\ [][NextWorkers]_vars
  /\ SF_vars(ReaderRuns)
  /\ SF_vars(EventRuns)
  /\ SF_vars(ControlRuns)

FairBase ==
  /\ Init
  /\ [][NextBase]_vars
  /\ SF_vars(ReaderRuns)
  /\ SF_vars(EventRuns)
  /\ SF_vars(ControlRuns)

\* msg() with a handler that may take for ever: the calling thread and the
\* reader are scheduled and the peer answers; nothing is asked of the event
\* thread, which may stay in _handle_event or anywhere else.
FairMsg ==
  /\ Init
  /\ [][NextMsg]_vars
  /\ SF_vars(ReaderRuns)
  /\ SF_vars(PeerAnswers)
  /\ SF_vars(CallerRuns)

Spec == Init /\ [][Next]_vars

(***************************************************************************)
(* Properties of the transport, checked under Spec.                        *)
(***************************************************************************)
\* msg() returns to its caller: line 215-218, anything but a SocketClosed.
MsgReturns == pc[CALLER] = "m_wait" /\ pc'[CALLER] = "idle"

\* C1: what a msg() call returns, or raises as the error of its command, is
\* the peer's answer to the command that this call sent: never the answer to
\* another call's command and never something that answers no command.
C1_OwnReplyOnly ==
  [][MsgReturns => Head(reply_queue).for = ncalls]_vars

\* C2: once close() has been called and has returned, no msg() call is left
\* blocked on an empty reply queue with the reader thread gone: the reader has
\* deposited the SocketClosed that wakes it, wherever in its loop it was.
C2_WaiterIsWoken ==
  ~(/\ pc[CALLER] = "m_wait"
    /\ ~is_alive
    /\ send_lock = Free
    /\ reply_queue = << >>
    /\ pc[READER] = "dead")

\* C3: each change of is_alive, to true by connect() and to false by close()
\* or by a disconnect that recv() or send() observed, is notified to every
\* listener exactly once, as INIT or CLOSED: what a listener has been told is
\* the changes so far, less the last one while the call that made it still
\* holds the send lock; so also when the reader thread and an application
\* thread both close the same connection.
C3_OneNotificationPerChange ==
  \A l \in Listeners :
    /\ send_lock = Free => notes[l] = transitions
    /\ \/ notes[l] = transitions
       \/ /\ transitions # << >>
          /\ notes[l] = SubSeq(transitions, 1, Len(transitions) - 1)

\* The reader thread has closed the second connection and is about to notify
\* its listeners while an application thread waits to close it as well.
C3_Witness ==
  /\ pc[READER] = "c_join"
  /\ pc[CONTROL] = "c_lock"
  /\ transitions = << CLOSED, INIT, CLOSED >>

\* C4: a msg() call made after close() has returned, no connect() having been
\* called since, writes nothing to the socket and ends by raising
\* SocketClosed.
C4_ClosedRefusesMsg ==
  [][after_close =>
       /\ ~wrote /\ ~wrote'
       /\ pc'[CALLER] = "idle" => pc[CALLER] = "m_raise"]_vars

\* Such a call about to raise its SocketClosed.
C4_Witness == after_close /\ pc[CALLER] = "m_raise" /\ ~wrote

\* The command of the msg() call in progress has been written and not answered.
Unanswered == \E i \in 1..Len(pending) : pending[i] = ncalls

\* C5: when the peer has closed the socket under a msg() call waiting for its
\* answer, the call is not left blocked once the connection is closed: the
\* reader has deposited the SocketClosed that makes it raise.
C5_PeerCloseWakesWaiter ==
  ~(/\ pc[CALLER] = "m_wait"
    /\ Unanswered
    /\ ~peer_open
    /\ ~is_alive
    /\ send_lock = Free
    /\ reply_queue = << >>
    /\ pc[READER] = "dead")

\* The last line's status code of a decoded message.
FinalCode(m) == m.codes[Len(m.codes)]

\* The message _event_loop holds, if it holds one.
InHand == IF event_message = Nothing THEN << >> ELSE << event_message >>

\* The event messages in the order they go, or went, to _handle_event.
Delivery == handled \o InHand \o event_queue

\* C6: a decoded message whose final line has status code 650 goes to the
\* event queue and from there to _handle_event, and is never in the reply
\* queue, which is all msg() returns from; a decoded message whose final line
\* has another code is never in the event queue nor handed to _handle_event.
C6_EventsApartFromReplies ==
  /\ \A i \in 1..Len(reply_queue) :
       reply_queue[i].kind = "ControlMessage" => FinalCode(reply_queue[i]) # "650"
  /\ \A i \in 1..Len(Delivery) :
       Delivery[i].kind = "ControlMessage" /\ FinalCode(Delivery[i]) = "650"
  /\ Len(Delivery) = nevents

\* An event has been handed to _handle_event and an answer waits in the reply
\* queue.
C6_Witness ==
  /\ handled # << >>
  /\ \E i \in 1..Len(reply_queue) : reply_queue[i].kind = "ControlMessage"

\* C7: every event the reader decoded and enqueued is delivered: when the
\* connection has been closed and its threads have ended, none is left in the
\* event queue, skipped by _handle_event.
C7_NoEventSkipped ==
  ~(/\ event_queue # << >>
    /\ pc[EVENT] = "dead"
    /\ pc[READER] = "dead"
    /\ ~is_alive
    /\ send_lock = Free)

\* The part of C7 that is about order: _handle_event is invoked for events in
\* the order the reader decoded them, none twice and none before an earlier one.
DeliveredInOrder ==
  \A i, j \in 1..Len(Delivery) : i < j => Delivery[i].seq < Delivery[j].seq

\* A step of close() on a connection that is already closed.
ClosesClosed(t) == pc[t] \in {"c_lock", "c_dead"} /\ pc'[t] # pc[t] /\ ~is_alive

\* C8: close() on a connection that is already closed changes nothing but the
\* send lock it takes and leaves, and notifies no listener: the socket, the
\* queues, the event notice and the notifications are what the first close()
\* left.
C8_CloseIsIdempotent ==
  [][(\E t \in Apps \cup {READER} : ClosesClosed(t)) =>
       UNCHANGED << sockv, recv_lock, msg_lock, queuev, is_change, wrote,
                    after_close, event_message, countv, histv >>]_vars

\* A second close() by the application, after the first has notified CLOSED.
C8_Witness ==
  /\ pc[CONTROL] = "c_dead"
  /\ ~is_alive
  /\ transitions = << CLOSED >>
  /\ \A l \in Listeners : notes[l] = << CLOSED >>

\* ControlSocket.send raises SocketClosed to the thread that called it: at
\* line 86, the socket not being alive, or at line 92 after send_message
\* raised it.
SendRaisesClosed(t) ==
  \/ pc[t] = "m_send" /\ pc'[t] = "c_lock" /\ ret'[t] = "m_raise"
  \/ pc[t] = "s_raise" /\ pc'[t] # "s_raise"

\* ControlSocket.send lets the SocketError of send_message through.
SendRaisesError(t) == pc[t] = "m_send" /\ pc'[t] = "idle"

\* C20 as stated: when send() fails, with SocketClosed or with any other
\* SocketError, the socket is not alive as the error leaves send().
C20_FailedSendCloses ==
  [][\A t \in Apps : (SendRaisesClosed(t) \/ SendRaisesError(t)) => ~is_alive']_vars

\* C20, amended: when send() fails with SocketClosed the socket is not alive
\* as the error leaves send(); when it fails with another SocketError the
\* socket is left alive, as send() found it.
C20_ClosedSendCloses ==
  [][\A t \in Apps :
       /\ SendRaisesClosed(t) => ~is_alive /\ ~is_alive'
       /\ SendRaisesError(t) => is_alive /\ is_alive']_vars

\* send() is about to re-raise the SocketClosed of a broken pipe: it has
\* closed the socket, which it found alive, and still holds the send lock.
C20_Witness ==
  \E t \in Apps :
    /\ pc[t] = "s_raise"
    /\ send_lock.owner = t
    /\ ~is_alive
    /\ transitions # << >>

\* What the listener registered with spawn = False has been notified of.
Told == notes["sync"]

\* No state twice in a row.
Alternates(s) == \A i \in 1..(Len(s) - 1) : s[i] # s[i + 1]

\* The close() that connect() called on a connection that was alive.
ConnectCloses == pc[CONTROL] \in {"c_lock", "c_dead", "c_join"} /\ ret[CONTROL] = "k_make"

\* C21: the states a synchronous listener is notified with alternate between
\* INIT and CLOSED, whichever of connect(), close() and the disconnects that
\* recv() and send() observe bring them about. connect() on a connection that
\* is alive goes through close(), which notifies CLOSED and nothing else, and
\* then notifies INIT, with no notification in between; connect() on a closed
\* connection makes the socket at once.
C21_NotificationsAlternate ==
  [][/\ Alternates(Told')
     /\ (pc[CONTROL] = "idle" /\ pc'[CONTROL] = "k_make") => ~is_alive
     /\ (pc[CONTROL] = "idle" /\ pc'[CONTROL] = "c_lock" /\ ret'[CONTROL] = "k_make")
          => is_alive
     /\ ConnectCloses =>
          IF pc'[CONTROL] = "k_make"
            THEN Told' = Append(Told, CLOSED)
            ELSE Told' = Told /\ ConnectCloses'
     /\ pc[CONTROL] = "k_make" =>
          IF is_alive' THEN Told' = Append(Told, INIT) ELSE Told' = Told]_vars

\* A second connect(), made on the connection the first one left alive, is
\* about to notify CLOSED.
C21_Witness ==
  /\ pc[CONTROL] = "c_join"
  /\ ret[CONTROL] = "k_make"
  /\ nconnects = 2
  /\ Told = << CLOSED, INIT >>

\* msg() writes its command: self._socket.send(message) returns.
MsgWrites == pc[CALLER] = "m_send" /\ pc'[CALLER] = "m_wait"

\* C28: what the reader put into the reply queue before msg() writes its
\* command does not reach that call. The call takes the head of the queue
\* and nobody else takes from it, so this says that the queue is empty when
\* the command is written.
C28_NothingOlderThanWrite ==
  [][MsgWrites => reply_queue = << >>]_vars

\* close() returns to the handler of msg(), which is left to raise.
ClosedForRaise == pc[CALLER] # "m_raise" /\ pc'[CALLER] = "m_raise"

\* What every step keeps to: the close() of the handler returns with the
\* socket closed; from there to "raise exc" the socket becomes alive by a
\* connect() of another thread only; and msg() takes no other way out with a
\* SocketClosed.
ClosedKept ==
  /\ ClosedForRaise => ~is_alive'
  /\ (pc[CALLER] = "m_raise" /\ ~is_alive /\ is_alive') =>
       (pc[CONTROL] = "k_make" /\ pc'[CONTROL] = "idle")
  /\ MsgReturns => Head(reply_queue).kind # "SocketClosed"

\* C34: when msg() raises SocketClosed its close() has run before the
\* exception leaves msg(), so the socket is not alive as it is raised unless
\* another thread's connect() made it alive in between.
C34_ClosedBeforeRaise == [][ClosedKept]_vars

\* msg() wrote its command, took the reader's SocketClosed from the reply
\* queue and has closed the socket; the exception is about to be raised.
C34_Witness ==
  /\ pc[CALLER] = "m_raise"
  /\ wrote
  /\ ~is_alive
  /\ transitions # << >>

\* The threads that thread t is waiting for: the owner of the send lock that
\* close() (socket.py 192) or send() (85) is to take, the owner of the recv
\* lock that connect() is to take (172), the threads that _close is to join
\* (control.py 347-349), and the reader for a msg() at _reply_queue.get()
\* (210) with the queue empty.
Awaited(t) ==
  CASE pc[t] \in {"c_lock", "m_send"} /\ ~CanAcquire(send_lock, t) -> {send_lock.owner}
    [] pc[t] = "k_make" /\ recv_lock # NoOne -> {recv_lock}
    [] pc[t] = "c_join" -> {other \in {READER, EVENT} : ~MayPassJoin(t, other)}
    [] pc[t] = "m_wait" /\ reply_queue = << >> -> {READER}
    [] OTHER -> {}

\* Threads each of which waits for one of them.
WaitForEachOther(S) == S # {} /\ \A t \in S : Awaited(t) \cap S # {}

\* C35: with the _handle_event of BaseController and listeners that call
\* nothing, no state is reached in which threads wait for each other: the
\* locks are not held in a cycle and close() joins no thread that waits for
\* the one that joins it.
C35_NoWaitCycle ==
  \A S \in SUBSET Threads : ~WaitForEachOther(S)

\* The application's close() is joining the reader while a msg() call waits
\* for the reader's answer: two threads wait, and the reader runs.
C35_Witness ==
  /\ pc[CONTROL] = "c_join"
  /\ READER \in Awaited(CONTROL)
  /\ Awaited(CALLER) = {READER}
  /\ Awaited(READER) = {}

(***************************************************************************)
(* Properties of a subclass and of the threads' progress, checked under    *)
(* SpecSubclass and FairWorkers.                                           *)
(***************************************************************************)
\* A subclass's call of _notify_status_listeners is at line 381, the send
\* lock taken.
AtGate == pc[CONTROL] = "n_lock" /\ pc'[CONTROL] # "n_lock"

\* The last state the synchronous listener was told.
LastTold == Told[Len(Told)]

\* What every step keeps to: a notification whose expect_alive differs from
\* is_alive() at the test made under the send lock reaches no listener, and
\* one that agrees reaches them all; while the synchronous listener's
\* callback runs is_alive() is what was expected, true when it is told INIT
\* and false when it is told CLOSED; is_alive() changes only in a step of
\* the thread that owns the send lock, which during a callback is the
\* notifying thread.
GateKept ==
  /\ AtGate =>
       IF notifying.expect_alive # is_alive
         THEN notes' = notes /\ pc'[CONTROL] = "idle"
         ELSE /\ \A l \in Listeners : notes'[l] = Append(notes[l], RESET)
              /\ pc'[CONTROL] = "n_call"
              /\ send_lock'.owner = CONTROL
  /\ (pc'[CONTROL] = "n_call") => (is_alive' = notifying'.expect_alive)
  /\ (Told' # Told) =>
       /\ (LastTold' = INIT) => is_alive'
       /\ (LastTold' = CLOSED) => ~is_alive'
       /\ send_lock.owner # NoOne \/ send_lock'.owner # NoOne
  /\ (is_alive' # is_alive) =>
       /\ send_lock.owner # NoOne
       /\ pc'[send_lock.owner] # pc[send_lock.owner]

\* C29: _notify_status_listeners tells no listener when expect_alive differs
\* from is_alive() under the send lock; a synchronous listener told INIT
\* sees is_alive() true and one told CLOSED sees it false for as long as its
\* callback runs.
C29_GateHolds == [][GateKept]_vars

\* The listener's callback runs for a RESET that expected a closed socket,
\* after an earlier notification was discarded.
C29_Witness ==
  /\ pc[CONTROL] = "n_call"
  /\ nnotifies = 2
  /\ Told = << CLOSED, RESET >>
  /\ ~is_alive

\* Thread t is in close().
InClose(t) == pc[t] \in {"c_lock", "c_dead", "c_join"}

\* C26: a close() that runs on the reader thread or on the event thread
\* does not wait for the thread it runs on, and it returns.
C26_OwnCloseCompletes ==
  \A t \in {READER, EVENT} : InClose(t) ~> ~InClose(t)

\* The thread has not ended.
Runs(p) == pc[p] # "dead"

\* C27: whenever the socket is alive and no connect() is under way, the
\* reader thread and the event thread both run.
C27_BothThreadsRun ==
  (is_alive /\ pc[CONTROL] # "k_make") => (Runs(READER) /\ Runs(EVENT))

\* C30: once the socket is closed the event thread hands the events still
\* in the event queue to _handle_event and ends, unless connect() makes the
\* socket alive again first; it does not stay in wait().
C30_DeliversThenExits ==
  ~is_alive ~> (is_alive \/ (pc[EVENT] = "dead" /\ event_queue = << >>))

\* The peer has the command of the msg() call in progress to answer.
ReplyDue == pc[CALLER] = "m_wait" /\ pending # << >> /\ ~SocketDown

\* C31: a msg() call whose reply the peer sends returns, or the socket goes
\* down first, also when the event thread never finishes the _handle_event
\* it is in: the reader goes on decoding meanwhile.
C31_ReplyNotHeldByHandler ==
  ReplyDue ~> (pc[CALLER] # "m_wait" \/ SocketDown)

\* _handle_event is executing and the reply to the msg() call in progress
\* has been decoded and is the next thing the call gets.
C31_Witness ==
  /\ pc[EVENT] = "e_handle"
  /\ pc[CALLER] = "m_wait"
  /\ reply_queue # << >>
  /\ Head(reply_queue).kind = "ControlMessage"
  /\ Head(reply_queue).for = ncalls

(***************************************************************************)
(* Properties of the session, checked under SpecSession.                   *)
(***************************************************************************)
\* A call of the Controller returns or raises.
Ends(op) == nrequests' # nrequests /\ last'.op = op

\* get_info(p), asked for the one key p, returns a value.
GetInfoReturns(p) ==
  /\ Ends("get_info")
  /\ last'.params = {p}
  /\ ~last'.multiple
  /\ last'.outcome = "return"

\* C9: with caching enabled, when get_info(k) for a cacheable key k has
\* returned a value and since then neither connect() nor clear_cache() has
\* emptied the cache, the next get_info(k) that returns a value returns the
\* same value and writes nothing to the socket.
C9_CachedGetInfoRepeats ==
  [][\A p \in Params :
       (/\ GetInfoReturns(p)
        /\ is_caching_enabled
        /\ IsCacheable(Lower(p))
        /\ Lower(p) \in DOMAIN fetched)
       => last'.value = fetched[Lower(p)] /\ wire' = wire]_vars

\* The second of two calls, get_info("Version") with "version" in the cache:
\* one command has been written in all.
C9_Witness ==
  /\ is_caching_enabled
  /\ nrequests = 2
  /\ wire = 1
  /\ last.op = "get_info" /\ last.params = {"Version"} /\ ~last.multiple
  /\ last.outcome = "return"
  /\ last.entries = 1
  /\ last.value = fetched["version"]

\* C10: when connect() or clear_cache() returns, the request cache has no
\* entries.
C10_ClearedOnReturn ==
  [][(/\ Ends("connect") \/ Ends("clear_cache")
      /\ last'.outcome = "return")
       => DOMAIN request_cache' = {}]_vars

\* connect() has returned, having found entries in the cache.
C10_Witness ==
  /\ last.op = "connect"
  /\ last.outcome = "return"
  /\ last.entries > 0
  /\ DOMAIN request_cache = {}

\* connect() returns: the connection is established anew.
Reconnects == Ends("connect") /\ last'.outcome = "return"

\* C13: once an ip-to-country lookup has succeeded the failure count is -1,
\* and no later call changes it (a failed lookup, another get_info,
\* clear_cache) until connect() establishes the connection anew.
C13_SuccessIsRemembered ==
  [][(geoip_failure_count = -1 /\ ~Reconnects) => geoip_failure_count' = -1]_vars

\* A get_info call whose request holds an ip-to-country key that is not in
\* the cache.
LooksUpGeoip ==
  /\ Ends("get_info")
  /\ \E p \in last'.params :
       IsGeoip(p) /\ CacheKey("getinfo", Lower(p)) \notin DOMAIN request_cache

C15_DefaultInsteadOfError ==
  [][(/\ Ends("get_info") \/ Ends("get_conf") \/ Ends("get_conf_map")
      /\ last'.default # UNDEFINED)
       => last'.outcome = "default" /\ last'.value = last'.default]_vars

(***************************************************************************)
(* Properties of the configuration calls, checked under SpecConf.          *)
(***************************************************************************)
\* A get_conf or get_conf_map call ends, having written a GETCONF command.
Asks == (Ends("get_conf") \/ Ends("get_conf_map")) /\ wire' # wire

\* The key is one of the alias table, in whatever letter case.
IsAlias(key) == Lower(key) \in DOMAIN MAPPED_CONFIG_KEYS

\* C11: when get_conf_map or get_conf is passed a key that, lowercased, is
\* in the alias table, the GETCONF command it writes names the group key
\* HiddenServiceOptions (unless the cache answered for it) and not the key
\* it was passed.
C11_AliasAsksForGroup ==
  [][Asks =>
       \A i \in DOMAIN last'.params :
         IsAlias(last'.params[i]) =>
           /\ last'.params[i] \notin command'.arguments \ DictValues(MAPPED_CONFIG_KEYS)
           /\ \/ "HiddenServiceOptions" \in command'.arguments
              \/ CacheKey("getconf", "hiddenserviceoptions") \in DOMAIN request_cache]_vars

\* get_conf_map returns a mapping that holds what tor answered.
MapsAnswer ==
  /\ Ends("get_conf_map")
  /\ wire' # wire
  /\ last'.outcome = "return"

\* C12: in the mapping get_conf_map returns, a key tor answered to the query
\* for the alias group is spelled as tor spelled it, whatever the spelling
\* of the alias the application passed, and a key the application asked for
\* directly is spelled as the application spelled it.
C12_GroupKeysKeepTorCasing ==
  [][MapsAnswer =>
       \A key \in DOMAIN answer' :
         IF "HiddenServiceOptions" \in command'.arguments /\ IsAlias(key)
           THEN key \in DOMAIN last'.value
           ELSE ListLookup(last'.params, key, key) \in DOMAIN last'.value]_vars

\* The list of values a call had for a key: the one tor answered it with,
\* else the one the cache held.
ValuesOf(key) ==
  LET told == {t \in DOMAIN answer' : Lower(t) = Lower(key)}
  IN  IF told # {}
        THEN answer'[CHOOSE t \in told : TRUE]
        ELSE request_cache[CacheKey("getconf", Lower(key))]

\* A call with multiple = False returns: get_conf_map a mapping, get_conf
\* the value of its key.
ReturnsMapOfSingle ==
  Ends("get_conf_map") /\ ~last'.multiple /\ last'.outcome = "return"
ReturnsSingle ==
  /\ Ends("get_conf") /\ ~last'.multiple /\ last'.outcome = "return"
  /\ NotBlank(last'.params[1])

\* C16 as stated: with multiple = False the value returned for a key is the
\* last element of the key's list of values.
C16_LastValueOfEach ==
  [][/\ ReturnsMapOfSingle =>
          \A k \in DOMAIN last'.value :
            last'.value[k] = ValuesOf(k)[Len(ValuesOf(k))]
     /\ ReturnsSingle =>
          LET list == ValuesOf(last'.params[1]) IN last'.value = list[Len(list)]]_vars

\* C16, amended: with multiple = False the value returned for a key is the
\* first element of the key's list of values, whether tor answered the list
\* or the cache held it.
C16_FirstValueOfEach ==
  [][/\ ReturnsMapOfSingle =>
          \A k \in DOMAIN last'.value : last'.value[k] = Head(ValuesOf(k))
     /\ ReturnsSingle =>
          last'.value = Head(ValuesOf(last'.params[1]))]_vars

\* The second of two calls: get_conf_map("exitpolicy") answered from the
\* cache, which holds the list a, b: the value returned is a.
C16_Witness ==
  /\ nrequests = 2
  /\ wire = 1
  /\ last.op = "get_conf_map" /\ last.params = << "exitpolicy" >>
  /\ ~last.multiple /\ last.outcome = "return"
  /\ CacheKey("getconf", "exitpolicy") \in DOMAIN request_cache
  /\ request_cache[CacheKey("getconf", "exitpolicy")] = << "a", "b" >>
  /\ last.value = [k \in {"exitpolicy"} |-> "a"]

\* set_options, set_conf or reset_conf.
SetOps == {"set_options", "set_conf", "reset_conf"}

\* Such a call returns, with caching enabled: tor answered 250 OK.
OptionsSet == last'.op \in SetOps /\ nrequests' # nrequests /\ last'.outcome = "return"

\* The cache entry of a (param, value) pair is as the pair says: none for
\* None, [value] for a string, the list for a list.
EntryOf(cache, pair) ==
  LET cache_key == CacheKey("getconf", Lower(pair[1]))
  IN  IF IsNone(pair[2])
        THEN cache_key \notin DOMAIN cache
        ELSE cache_key \in DOMAIN cache /\ cache[cache_key] = pair[2].items

\* The pair is the last one of params for its param, lowercased.
IsLastFor(params, i) ==
  \A j \in DOMAIN params : Lower(params[j][1]) = Lower(params[i][1]) => j <= i

\* get_conf_map(param) is called next after a set_options call that
\* returned, with caching enabled, and whose pair i named the same option.
ReadsBack(i) ==
  /\ is_caching_enabled
  /\ last.op \in SetOps /\ last.outcome = "return"
  /\ i \in DOMAIN last.params
  /\ Ends("get_conf_map")
  /\ Len(last'.params) = 1
  /\ Lower(last'.params[1]) = Lower(last.params[i][1])

\* What get_conf_map(param) returns of a list of values.
MapOf(param, list, multiple) ==
  [k \in {param} |-> IF multiple THEN list ELSE Head(list)]

ConfOps == {"get_conf", "get_conf_map"} \cup SetOps
ConfCallEnds == nrequests' # nrequests /\ last'.op \in ConfOps

\* C19: a call of the Controller returns a value or raises a ControllerError
\* (ProtocolError, SocketError, SocketClosed, OperationFailed, InvalidRequest,
\* InvalidArguments); no exception of another kind leaves it.
C19_OnlyControllerErrors ==
  [][(ConfCallEnds /\ last'.outcome = "raise") => IsControllerError(last'.value)]_vars

\* set_options, set_conf or reset_conf ends by raising.
SetFails ==
  /\ nrequests' = nrequests + 1
  /\ last'.op \in {"set_options", "set_conf", "reset_conf"}
  /\ last'.outcome = "raise"

\* C39: when set_options, set_conf or reset_conf fails, by a reply that is
\* not OK or by msg() raising, the request cache is as it was before the
\* call.
C39_FailureKeepsCache ==
  [][SetFails => request_cache' = request_cache]_vars

\* A call that named a cached option with another value was refused by tor,
\* and the entry is there.
C39_Witness ==
  /\ last.op \in {"set_options", "set_conf", "reset_conf"}
  /\ last.outcome = "raise"
  /\ answer # Empty
  /\ answer.code = "513"
  /\ \E i \in DOMAIN last.params :
       /\ OptionKey(last.params[i][1]) \in DOMAIN request_cache
       /\ request_cache[OptionKey(last.params[i][1])] # last.params[i][2].items

(***************************************************************************)
(* Properties of set_options' replies, checked under SpecOptions.          *)
(***************************************************************************)
\* set_options has written its command and tor's reply is not OK.
Refuses ==
  /\ last'.op \in SetOps
  /\ nrequests' # nrequests
  /\ wire' # wire
  /\ answer'.code # "250"

\* The message is "Unrecognized option: Unknown option '<name>'", with or
\* without more text after it.
NamesOption(message, name) ==
  /\ StartsWith(message, UnknownOption \o name \o << "'" >>)
  /\ \A i \in DOMAIN name : name[i] # "'"

\* The names a message can be cut into after the 37 characters.
NamesIn(message) ==
  {SubSeq(message, Len(UnknownOption) + 1, n) : n \in Len(UnknownOption)..Len(message)}

\* isinstance(x, stem.socket.InvalidRequest), socket.py 585-602.
IsInvalidRequest(x) == x.kind \in {"InvalidRequest", "InvalidArguments"}

\* C18: set_options maps a reply that is not OK by its status code. A 552
\* whose message begins with Unrecognized option: Unknown option '<name>'
\* raises InvalidArguments carrying [name]; any other 552, and any 513 or
\* 553, raises InvalidRequest with the code and the message; every other
\* code raises ProtocolError.
C18_ErrorByStatusCode ==
  [][Refuses =>
       /\ last'.outcome = "raise"
       /\ IF answer'.code = "552"
               /\ \E name \in NamesIn(answer'.message) : NamesOption(answer'.message, name)
            THEN \E name \in NamesIn(answer'.message) :
                   /\ NamesOption(answer'.message, name)
                   /\ last'.value = InvalidArguments("552", answer'.message, << name >>)
          ELSE IF answer'.code \in {"552", "513", "553"}
            THEN /\ IsInvalidRequest(last'.value)
                 /\ last'.value.code = answer'.code
                 /\ last'.value.message = answer'.message
          ELSE last'.value = ProtocolError(0, 0)]_vars

\* set_options got 552 Unrecognized option: Unknown option 'xy' 'z and
\* raised InvalidArguments naming xy.
C18_Witness ==
  /\ last.op = "set_options"
  /\ last.outcome = "raise"
  /\ answer = Line("552", UnknownOption \o << "x", "y", "'", " ", "'", "z" >>)
  /\ last.value.kind = "InvalidArguments"
  /\ last.value.arguments = << << "x", "y" >> >>

(***************************************************************************)
(* Properties of the request cache, checked under SpecCache.               *)
(***************************************************************************)

\* A cache key "<namespace>.<key>" of one of the two namespaces whose key is
\* in lowercase, and for "getinfo" one that may be cached.
Namespaced(key) ==
  /\ Len(key) = 2
  /\ key[1] \in {"getinfo", "getconf"}
  /\ key[2] = Lower(key[2])
  /\ key[1] = "getinfo" => IsCacheable(key[2])

\* C33: every key of the request cache is "getinfo.<lowercased key>" or
\* "getconf.<lowercased key>", and every "getinfo." entry is for a key of
\* CACHEABLE_GETINFO_PARAMS or for one that begins with "ip-to-country/".
C33_KeysAreNamespaced ==
  \A key \in DOMAIN request_cache : Namespaced(key)



\* The connections the values of a cache entry were read on: a "getinfo"
\* entry is one value, a "getconf" entry a list of values.
ReadOnOf(key) ==
  IF key[1] = "getinfo"
    THEN {request_cache[key].read_on}
    ELSE {request_cache[key][i].read_on : i \in DOMAIN request_cache[key]}

\* C36: once connect() has made the connection anew and returned, the cache
\* holds no value that was read on an earlier connection, also when a
\* get_info or get_conf_map call that began on the earlier connection ends
\* while or after connect() runs. Checked under SpecReconnect.
C36_NothingFromOldConnection ==
  pc[CONTROL] = "idle" =>
    \A key \in DOMAIN request_cache : ReadOnOf(key) \subseteq {nconnects}

\* C37: the geoip failure count is -1 or from 0 to GEOIP_FAILURE_THRESHOLD,
\* also when several threads call get_info at once. Checked under
\* SpecLookups.
C37_CountInRange ==
  geoip_failure_count \in {-1} \cup (0..GEOIP_FAILURE_THRESHOLD)

\* C38: with caching on, the value of a cache entry "getconf.<k>" is the
\* value tor holds for the option k, tor's configuration being changed by
\* this controller's set_conf, reset_conf, set_options and load_conf only.
\* Checked under SpecTor.
C38_CacheIsTorsValue ==
  is_caching_enabled =>
    \A k \in TorKeys :
      CacheKey("getconf", Lower(k)) \in DOMAIN request_cache =>
        request_cache[CacheKey("getconf", Lower(k))] = tor_conf[k]

\* The features of the list.
Features(enabled) == {enabled[i] : i \in DOMAIN enabled}

\* A call of the Controller named op ends.
CallEnds(op) == nrequests' = nrequests + 1 /\ last'.op = op

\* What every step keeps to: no feature leaves the list; enable_feature
\* returns for 250 only and then has added the names it was given, in upper
\* case, and adds nothing when it raises; close(), connect() and
\* clear_cache() leave the list as it is.
FeaturesKept ==
  /\ Features(enabled_features) \subseteq Features(enabled_features')
  /\ CallEnds("enable_feature") =>
       IF last'.outcome = "return"
         THEN /\ answer'.code = "250"
              /\ Features(enabled_features') =
                   Features(enabled_features)
                     \cup {Upper(command'.arguments[i]) : i \in DOMAIN command'.arguments}
         ELSE enabled_features' = enabled_features
  /\ (CallEnds("close") \/ CallEnds("connect") \/ CallEnds("clear_cache")) =>
       enabled_features' = enabled_features

ReadsReplyLine == received = Reading /\ data_entry = NoEntry
NextLine == Readline(control_file)

\* A line that is no reply line: fewer than four characters, a status code
\* that is not three letters or digits, a divider that is none of "-", " "
\* and "+", or no CRLF at its end.
BadLine(line) ==
  \/ Len(line) < 4
  \/ \E i \in 1..3 : line[i] \notin Alnum
  \/ line[4] \notin {"-", " ", "+"}
  \/ ~EndsWith(line, CRLF)

\* C22: where a reply line is due, a read of zero bytes makes recv_message
\* raise SocketClosed, and a line of fewer than four characters, a line whose
\* first three characters are not alphanumeric or whose fourth is not a
\* divider, and a line that does not end in CRLF make it raise ProtocolError;
\* it returns no reply and records nothing of the line. Any other line
\* raises nothing.
C22_BadLineRaises ==
  [][(ReadsReplyLine /\ NextLine.raised = "none") =>
       IF NextLine.line = << >>
         THEN received' = Raised("SocketClosed") /\ parsed_content' = parsed_content
       ELSE IF BadLine(NextLine.line)
         THEN received' = Raised("ProtocolError") /\ parsed_content' = parsed_content
       ELSE received'.kind \in {"none", "ControlMessage"}]_vars

\* A malformed line has followed a line that was recorded.
C22_Witness ==
  /\ received = Raised("ProtocolError")
  /\ data_entry = NoEntry
  /\ parsed_content # << >>
  /\ ~formatted.given

\* recv_message is inside a data block, the period that ends it not read yet.
InDataBlock == received = Reading /\ data_entry # NoEntry

\* The stream has come to its end: readline() returns zero bytes.
EndOfStream == NextLine.raised = "none" /\ NextLine.line = << >>

\* C23: when the stream ends while recv_message is inside a data block,
\* before the line with the period has been read, recv_message raises
\* SocketClosed.
C23_ClosedInDataBlock ==
  [][(InDataBlock /\ EndOfStream) => received' = Raised("SocketClosed")]_vars

\* A line without its CRLF, and without the period that escapes a data line
\* that begins with one.
Payload(line) == SubSeq(line, 1, Len(line) - 2)
Unescaped(payload) ==
  IF Len(payload) >= 2 /\ payload[1] = "." /\ payload[2] = "."
    THEN SubSeq(payload, 2, Len(payload))
    ELSE payload

\* C24: a line with the divider "+" opens an entry (code, "+", content) with
\* the content of that line; each line read after it that ends in CRLF and is
\* not a period alone is added to the content behind a LF, less one leading
\* period if it begins with two; the line that is a period alone closes the
\* entry, which is recorded once, and recv_message goes on to read reply
\* lines.
C24_DataBlockDecoded ==
  [][/\ (ReadsReplyLine /\ NextLine.raised = "none" /\ ~BadLine(NextLine.line)
           /\ NextLine.line[4] = "+") =>
          /\ data_entry' = Entry(SubSeq(NextLine.line, 1, 3), "+",
                                 SubSeq(Payload(NextLine.line), 5,
                                        Len(NextLine.line) - 2))
          /\ parsed_content' = parsed_content
          /\ received' = Reading
     /\ (InDataBlock /\ NextLine.raised = "none" /\ EndsWith(NextLine.line, CRLF)) =>
          IF Payload(NextLine.line) = << "." >>
            THEN /\ parsed_content' = Append(parsed_content, data_entry)
                 /\ data_entry' = NoEntry
                 /\ received' = Reading
            ELSE /\ data_entry' =
                      [data_entry EXCEPT !.content =
                         @ \o << "\n" >> \o Unescaped(Payload(NextLine.line))]
                 /\ parsed_content' = parsed_content
                 /\ received' = Reading]_vars

\* A message was returned whose first entry is a data block of two lines, the
\* second sent with two periods, and whose second entry is the line read
\* after the block.
C24_Witness ==
  /\ received.kind = "ControlMessage"
  /\ Len(received.content) = 2
  /\ received.content[1] = Entry(Code, "+", << "a", "\n", ".", "a" >>)
  /\ received.content[2] = Entry(Code, " ", << "a" >>)
  /\ ~formatted.given

\* C25: the bytes send_formatting makes of a message decode to that message:
\* recv_message, given them as a peer would send them in a reply, returns a
\* message whose first entry holds the text that was formatted, CRLF taken
\* for LF.
C25_RoundTrip ==
  (formatted.given /\ received # Reading) =>
    /\ received.kind = "ControlMessage"
    /\ received.content[1].content = Normalized(formatted.text)

\* The entries of a message: at least one, the last with the divider " ", the
\* ones before it with "-" or "+".
WellFormed(content) ==
  /\ content # << >>
  /\ content[Len(content)].divider = " "
  /\ \A i \in 1..(Len(content) - 1) : content[i].divider \in {"-", "+"}

\* The line recv_message is about to read is a reply line with divider " ".
ReadsEndLine ==
  /\ ReadsReplyLine
  /\ NextLine.raised = "none"
  /\ ~BadLine(NextLine.line)
  /\ NextLine.line[4] = " "

\* C32: a message recv_message returns is a non-empty list of entries, the
\* last with divider " " and the earlier ones with "-" or "+"; and
\* recv_message returns at the first reply line whose divider is " ".
C32_EndsAtSpace ==
  [][/\ (received'.kind = "ControlMessage") => WellFormed(received'.content)
     /\ ReadsEndLine =>
          /\ received'.kind = "ControlMessage"
          /\ Len(received'.content) = Len(parsed_content) + 1]_vars

\* A message of three entries, one of each divider.
C32_Witness ==
  /\ received.kind = "ControlMessage"
  /\ Len(received.content) = 3
  /\ received.content[1].divider = "-"
  /\ received.content[2].divider = "+"
  /\ received.content[3].divider = " "

====
